---- MODULE Spec2Model ----
(***************************************************************************)
(* A model of the ZIP-backed I/O provider of wzmaplib                      *)
(* (lib/wzmaplib/plugins/ZipIOProvider/src/ZipIOProvider.cpp):             *)
(* WrappedZipArchive, WzMapBinaryZipIOStream and the WzMapZipIO facade,    *)
(* over an abstract libzip entry table.                                    *)
(*                                                                         *)
(* A std::string is a sequence of one-character strings; a byte is a       *)
(* natural number; size_t/optional results are integers with -1 for        *)
(* "no value".                                                             *)
(***************************************************************************)
EXTENDS Integers, Sequences, FiniteSets, TLC

VARIABLES
    entries,       \* the backend's entry table of the zip_t, in index order
    pZip,          \* WrappedZipArchive::pZip: "open"; nullptr is "null" once
                   \* closed and "none" when the wrapper was built without a handle
    readOnly,      \* WrappedZipArchive::readOnly
    kind,          \* the entry point that acquired the archive
    facade,        \* TRUE while the caller holds the shared_ptr<WzMapZipIO>
    quirk,         \* WzMapZipIO::m_foundMalformedWindowsPathSeparators
    cache,         \* WzMapZipIO::m_cachedDirectoriesList
    streams,       \* the WzMapBinaryZipIOStream objects handed out
    fileData,      \* the caller's std::vector<char> given to loadFullFile
    events,        \* the backend closes and onCloseFunc calls made, in order
    provider,      \* the WzZipIOSourceReadProvider given to
                   \* openZipArchiveReadIOProvider and the zip_source_t on it
    lastOp         \* the last call made by the caller and what it returned

vars == <<entries, pZip, readOnly, kind, facade, quirk, cache, streams,
          fileData, events, provider, lastOp>>

(***************************************************************************)
(* Bounds of the model.                                                    *)
(***************************************************************************)
MaxEntries == 2      \* entries of an archive opened from an existing file
MaxStreams == 2      \* streams handed out over the life of an archive
MaxBuf == 1          \* bytes buffered by one write stream
MaxReadLen == 2
MaxFrees == 2      \* len of a readBytes call

(***************************************************************************)
(* std::string helpers.                                                    *)
(***************************************************************************)
NPos == -1

SetMin(S) == CHOOSE x \in S : \A y \in S : x <= y
SetMax(S) == CHOOSE x \in S : \A y \in S : x >= y

Last(s) == s[Len(s)]

\* std::string::find(ch, pos): 0-based index of the first ch at or after pos
Find(s, ch, pos) ==
    LET hits == {i \in (pos + 1)..Len(s) : s[i] = ch}
    IN  IF hits = {} THEN NPos ELSE SetMin(hits) - 1

\* std::string::rfind(ch): 0-based index of the last ch
RFind(s, ch) ==
    LET hits == {i \in 1..Len(s) : s[i] = ch}
    IN  IF hits = {} THEN NPos ELSE SetMax(hits) - 1

\* strchr(s, ch) != nullptr
HasChar(s, ch) == \E i \in 1..Len(s) : s[i] = ch

\* std::string::find(pat) != npos
HasSubstr(s, pat) ==
    \E i \in 1..(Len(s) - Len(pat) + 1) : SubSeq(s, i, i + Len(pat) - 1) = pat

\* strncmp(p, s, p.size()) == 0
StartsWith(s, p) == Len(p) <= Len(s) /\ SubSeq(s, 1, Len(p)) = p

\* std::string::substr(pos)
Substr(s, pos) == SubSeq(s, pos + 1, Len(s))

\* std::replace(begin, end, from, to)
Replace(s, from, to) == [i \in 1..Len(s) |-> IF s[i] = from THEN to ELSE s[i]]

Take(s, n) == SubSeq(s, 1, IF n < Len(s) THEN n ELSE Len(s))

Letters == {"a", "b", "c", "d", "e", "f", "g", "h", "i", "j", "k", "l", "m",
            "n", "o", "p", "q", "r", "s", "t", "u", "v", "w", "x", "y", "z",
            "A", "B", "C", "D", "E", "F", "G", "H", "I", "J", "K", "L", "M",
            "N", "O", "P", "Q", "R", "S", "T", "U", "V", "W", "X", "Y", "Z"}

\* the byte value of the characters the model's names are made of
CharCode(c) ==
    CASE c = "." -> 46 [] c = "/" -> 47 [] c = ":" -> 58 [] c = "C" -> 67
      [] c = "\\" -> 92 [] c = "a" -> 97 [] c = "b" -> 98 [] c = "c" -> 99
      [] c = "d" -> 100 [] c = "f" -> 102 [] c = "x" -> 120

\* operator< of std::string, as std::sort uses it
RECURSIVE StrLess(_, _)
StrLess(s, t) ==
    IF t = <<>> THEN FALSE
    ELSE IF s = <<>> THEN TRUE
    ELSE IF CharCode(Head(s)) # CharCode(Head(t))
         THEN CharCode(Head(s)) < CharCode(Head(t))
         ELSE StrLess(Tail(s), Tail(t))

SeqToSet(s) == {s[i] : i \in 1..Len(s)}

(***************************************************************************)
(* Name checks and the separator workaround.                               *)
(***************************************************************************)
\* a name check that lets every name through
isUnsafeUnchecked(filename) == FALSE

isUnsafeZipEntryName(filename) ==
    \/ filename = <<>>
    \/ HasSubstr(filename, <<".", ".">>)
    \/ Head(filename) = "/" \/ Head(filename) = "\\"
    \/ Len(filename) >= 2 /\ filename[2] = ":" /\ filename[1] \in Letters

\* determineIfMalformedWindowsPathSeparatorWorkaround, the scan from index i
RECURSIVE ScanSeparators(_, _)
ScanSeparators(es, i) ==
    IF i > Len(es) THEN FALSE
    ELSE IF es[i].opsys = "DOS"
         THEN IF HasChar(es[i].name, "\\") THEN TRUE
              ELSE IF HasChar(es[i].name, "/") THEN FALSE
              ELSE ScanSeparators(es, i + 1)
         ELSE FALSE

\* a detection that looks for a DOS-origin backslash name anywhere
detectByAnyEntry(es) ==
    \E i \in 1..Len(es) : es[i].opsys = "DOS" /\ HasChar(es[i].name, "\\")

determineIfMalformedWindowsPathSeparatorWorkaround(es) == ScanSeparators(es, 1)

\* the macro malformed_windows_path_separators_workaround: its value, and the
\* flag it leaves behind
Workaround(q, es) ==
    IF q = "unknown" THEN determineIfMalformedWindowsPathSeparatorWorkaround(es)
    ELSE q = "true"

\* a macro that forgets what the scan found
MemoizedNever(q, es) == q

Memoized(q, es) ==
    IF q = "unknown"
    THEN (IF determineIfMalformedWindowsPathSeparatorWorkaround(es) THEN "true" ELSE "false")
    ELSE q

\* zip_name_locate: index of the entry with exactly this name, or -1
zip_name_locate(es, fname) ==
    LET hits == {i \in 1..Len(es) : es[i].name = fname}
    IN  IF hits = {} THEN -1 ELSE SetMin(hits)

\* a lookup that retries with backslashes whatever the archive looks like
LocateAlwaysRetry(es, fname, useWorkaround) ==
    IF zip_name_locate(es, fname) < 0
    THEN zip_name_locate(es, Replace(fname, "/", "\\"))
    ELSE zip_name_locate(es, fname)

\* a lookup that never retries with backslashes
LocateWithoutRetry(es, fname, useWorkaround) == zip_name_locate(es, fname)

wz_zip_name_locate_impl(es, fname, useWorkaround) ==
    IF zip_name_locate(es, fname) < 0 /\ useWorkaround
    THEN zip_name_locate(es, Replace(fname, "/", "\\"))
    ELSE zip_name_locate(es, fname)

\* the name an enumeration works on: backslashes of a DOS-origin entry become
\* slashes when the workaround is on
NormalizedName(e, wa) ==
    IF wa /\ e.opsys = "DOS" /\ HasChar(e.name, "\\")
    THEN Replace(e.name, "\\", "/")
    ELSE e.name

basePathToSearch(basePath) ==
    LET b == IF basePath # <<>> /\ Last(basePath) # "/"
             THEN Append(basePath, "/") ELSE basePath
    IN  IF b = <<"/">> THEN <<>> ELSE b

(***************************************************************************)
(* File enumeration (enumerateFilesInternal): the names handed to enumFunc  *)
(* when it never asks to stop, in index order.                             *)
(***************************************************************************)
RECURSIVE FilesFrom(_, _, _, _, _)
FilesFrom(es, i, wa, base, recurse) ==
    IF i > Len(es) THEN <<>>
    ELSE LET nameStr == NormalizedName(es[i], wa)
             skip == \/ es[i].name = <<>>
                     \/ base # <<>> /\ ~StartsWith(nameStr, base)
                     \/ isUnsafeZipEntryName(nameStr)
                     \/ Last(nameStr) = "/"
                     \/ ~recurse /\ Find(nameStr, "/", Len(base)) # NPos
             rel == IF base # <<>> THEN Substr(nameStr, Len(base)) ELSE nameStr
         IN  (IF skip THEN <<>> ELSE <<rel>>) \o FilesFrom(es, i + 1, wa, base, recurse)

\* a file listing that always descends
FilesIgnoringDepth(es, wa, basePath, recurse) ==
    FilesFrom(es, 1, wa, basePathToSearch(basePath), TRUE)

enumerateFilesInternal(es, wa, basePath, recurse) ==
    FilesFrom(es, 1, wa, basePathToSearch(basePath), recurse)

(***************************************************************************)
(* Folder enumeration (enumerateFoldersInternal): the directory cache and  *)
(* the listing made from it.                                               *)
(***************************************************************************)
RECURSIVE StripTrailingSlashes(_)
StripTrailingSlashes(s) ==
    IF s # <<>> /\ Last(s) = "/" THEN StripTrailingSlashes(SubSeq(s, 1, Len(s) - 1))
    ELSE s

\* the while (!nameStr.empty()) loop: the directories it inserts, in order
RECURSIVE AncestorDirs(_)
AncestorDirs(nameStr) ==
    IF nameStr = <<>> THEN <<>>
    ELSE IF Last(nameStr) # "/" /\ RFind(nameStr, "/") = NPos THEN <<>>
    ELSE LET dir == IF Last(nameStr) # "/"
                    THEN SubSeq(nameStr, 1, RFind(nameStr, "/") + 1)
                    ELSE nameStr
         IN  <<dir>> \o AncestorDirs(StripTrailingSlashes(dir))

\* push_back of every directory foundDirectoriesSet did not hold yet
RECURSIVE PushNew(_, _)
PushNew(list, dirs) ==
    IF dirs = <<>> THEN list
    ELSE PushNew(IF Head(dirs) \in SeqToSet(list) THEN list ELSE Append(list, Head(dirs)),
                 Tail(dirs))

RECURSIVE CollectDirs(_, _, _, _)
CollectDirs(es, i, wa, list) ==
    IF i > Len(es) THEN list
    ELSE LET nameStr == NormalizedName(es[i], wa)
         IN  IF es[i].name = <<>> \/ isUnsafeZipEntryName(nameStr)
             THEN CollectDirs(es, i + 1, wa, list)
             ELSE CollectDirs(es, i + 1, wa, PushNew(list, AncestorDirs(nameStr)))

\* a cache left in the order the directories were met
BuildCacheUnsorted(es, wa) == CollectDirs(es, 1, wa, <<>>)

BuildCache(es, wa) == SortSeq(CollectDirs(es, 1, wa, <<>>), StrLess)

RECURSIVE FoldersFrom(_, _, _, _)
FoldersFrom(list, i, base, recurse) ==
    IF i > Len(list) THEN <<>>
    ELSE LET dirPath == list[i]
             firstSlashPos == Find(dirPath, "/", Len(base))
             skip == \/ base # <<>> /\ ~StartsWith(dirPath, base)
                     \/ Len(dirPath) = Len(base)
                     \/ /\ ~recurse
                        /\ firstSlashPos # NPos
                        /\ firstSlashPos # Len(dirPath) - 1
         IN  (IF skip THEN <<>> ELSE <<Substr(dirPath, Len(base))>>)
                 \o FoldersFrom(list, i + 1, base, recurse)

listFolders(list, basePath, recurse) ==
    FoldersFrom(list, 1, basePathToSearch(basePath), recurse)

(***************************************************************************)
(* std::vector<char> with its zero fill kept implicit: len bytes, of which  *)
(* bytes is the content up to the last non-zero byte.                      *)
(***************************************************************************)
RECURSIVE TrimZeros(_)
TrimZeros(b) ==
    IF b # <<>> /\ Last(b) = 0 THEN TrimZeros(SubSeq(b, 1, Len(b) - 1)) ELSE b

Vec(b) == [len |-> Len(b), bytes |-> TrimZeros(b)]
VecZeros(n) == [len |-> n, bytes |-> <<>>]
\* the vector after its first Len(b) bytes were overwritten with b
VecStore(v, b) == [len |-> v.len,
                   bytes |-> IF Len(b) >= Len(v.bytes) THEN TrimZeros(b)
                             ELSE b \o SubSeq(v.bytes, Len(b) + 1, Len(v.bytes))]

(***************************************************************************)
(* The backend (libzip) as the provider sees it.                           *)
(***************************************************************************)
WzMapZipDefaultEmbeddedFileMaxFileSize == 104857600

Min2(a, b) == IF a < b THEN a ELSE b
Max2(a, b) == IF a > b THEN a ELSE b

\* zip_file_add(..., ZIP_FL_OVERWRITE): replaces the data of the entry of that
\* name, or appends a new entry
zip_file_add(es, name, data) ==
    LET idx == zip_name_locate(es, name)
        new == [name |-> name, data |-> data, size |-> Len(data),
                opsys |-> "UNIX", comp |-> "STORE"]
    IN  IF idx < 0 THEN Append(es, new)
        ELSE [es EXCEPT ![idx] = [@ EXCEPT !.data = data, !.size = Len(data),
                                            !.comp = "STORE"]]

\* what zip_close leaves in the archive's source: one record per entry and the
\* end-of-central-directory record
ArchiveImage(es) ==
    es \o <<[name |-> <<>>, data |-> <<>>, size |-> Len(es),
             opsys |-> "EOCD", comp |-> "EOCD"]>>

(***************************************************************************)
(* WzMapBinaryZipIOStream.                                                 *)
(***************************************************************************)
NoStream == [alive |-> FALSE, mode |-> "READ", rh |-> FALSE, rdata |-> <<>>,
             rpos |-> 0, rerr |-> FALSE, extra |-> <<>>, filename |-> <<>>,
             wbuf |-> <<>>, wcap |-> 0,
             name0 |-> <<>>, delivered |-> <<>>, closedWith |-> <<>>,
             closed |-> FALSE]

\* openForReading: the stream object exists whether or not zip_fopen_index
\* gave a handle
openForReading(e, fopenOK) ==
    [NoStream EXCEPT !.alive = TRUE, !.mode = "READ", !.rh = fopenOK,
                     !.rdata = e.data, !.name0 = e.name]

openForWriting(filename) ==
    [NoStream EXCEPT !.alive = TRUE, !.mode = "WRITE", !.filename = filename,
                     !.name0 = filename]

\* a readBytes that forgets the pending lookahead byte
readBytesLosingLookahead(s, len, ioErr, wide) ==
    IF ~s.rh THEN [s |-> s, cnt |-> -1, chunk |-> <<>>]
    ELSE LET n == IF s.rerr \/ ioErr THEN -1 ELSE Min2(len, Len(s.rdata) - s.rpos)
             got == IF n < 0 THEN <<>> ELSE SubSeq(s.rdata, s.rpos + 1, s.rpos + n)
         IN  [s |-> [s EXCEPT !.extra = <<>>, !.rpos = @ + Len(got),
                               !.rerr = s.rerr \/ ioErr],
              cnt |-> n, chunk |-> got]

\* readBytes(buffer, len). wide: size_t has 64 bits, so that len - 1 on
\* len = 0 exceeds ZIP_INT64_MAX and zip_fread refuses it; with 32 bits
\* zip_fread is asked for 2^32 - 1 bytes and delivers all that is left
readBytes(s, len, ioErr, wide) ==
    IF ~s.rh THEN [s |-> s, cnt |-> -1, chunk |-> <<>>]
    ELSE LET extraByte == Len(s.extra)
             wrapped == extraByte = 1 /\ len = 0
             refused == wrapped /\ wide
             left == Len(s.rdata) - s.rpos
             n == IF s.rerr \/ ioErr \/ refused THEN -1
                  ELSE IF wrapped THEN left
                  ELSE Min2(len - extraByte, left)
             got == IF n < 0 THEN <<>> ELSE SubSeq(s.rdata, s.rpos + 1, s.rpos + n)
         IN  [s |-> [s EXCEPT !.extra = <<>>, !.rpos = @ + Len(got),
                               !.rerr = s.rerr \/ ioErr \/ refused],
              cnt |-> IF n < 0 THEN (IF extraByte = 1 THEN 1 ELSE -1)
                      ELSE n + extraByte,
              chunk |-> s.extra \o got]

\* BinaryIOStream::readULE8: one byte through readBytes
readULE8(s, ioErr) ==
    LET r == readBytes(s, 1, ioErr, TRUE)
    IN  [s |-> r.s, ok |-> r.cnt = 1, val |-> r.chunk]

\* an endOfStream that does not keep the byte it read ahead
endOfStreamDroppingByte(s, ioErr) ==
    IF s.mode # "READ" \/ ~s.rh \/ s.extra # <<>> THEN [s |-> s, res |-> FALSE]
    ELSE [s |-> readULE8(s, ioErr).s, res |-> ~readULE8(s, ioErr).ok]

endOfStream(s, ioErr) ==
    IF s.mode # "READ" THEN [s |-> s, res |-> FALSE]
    ELSE IF ~s.rh THEN [s |-> s, res |-> FALSE]
    ELSE IF s.extra # <<>> THEN [s |-> s, res |-> FALSE]
    ELSE LET r == readULE8(s, ioErr)
         IN  IF ~r.ok THEN [s |-> r.s, res |-> TRUE]
             ELSE [s |-> [r.s EXCEPT !.extra = r.val], res |-> FALSE]

\* a writeBytes that grows the buffer to just what is asked for
writeBytesGrowingExactly(s, chunk, allocOK) ==
    LET len == Len(chunk)
        grow == s.wcap - Len(s.wbuf) < len
    IN  IF grow /\ ~allocOK THEN [s |-> s, cnt |-> -1]
        ELSE [s |-> [s EXCEPT !.wbuf = @ \o chunk,
                               !.wcap = IF grow THEN Len(s.wbuf) + len ELSE @],
              cnt |-> len]

writeBytes(s, chunk, allocOK) ==
    LET len == Len(chunk)
        grow == s.wcap - Len(s.wbuf) < len
        newCapacity == Max2(s.wcap + Max2(s.wcap \div 2, len), 1024)
    IN  IF grow /\ ~allocOK THEN [s |-> s, cnt |-> -1]
        ELSE [s |-> [s EXCEPT !.wbuf = @ \o chunk,
                               !.wcap = IF grow THEN newCapacity ELSE @],
              cnt |-> len]

\* What a close() did with the write buffer: freed, the number of free()
\* calls on it; handed, the number of times zip_source_buffer took it over
\* (freep = 1: the backend frees it, in zip_source_free or with the entry).
Released(f, h) == [freed |-> f, handed |-> h]

\* a close that registers an entry for an empty buffer too
closeRegisteringEmpty(s, es, ro, srcOK, addOK) ==
    IF s.rh THEN [s |-> [s EXCEPT !.rh = FALSE, !.filename = <<>>], es |-> es, res |-> TRUE,
                  rel |-> Released(0, 0)]
    ELSE IF ~srcOK \/ s.filename = <<>> \/ ro \/ ~addOK
         THEN [s |-> [s EXCEPT !.wbuf = <<>>, !.wcap = 0, !.filename = <<>>],
               es |-> es, res |-> FALSE, rel |-> Released(0, 0)]
    ELSE [s |-> [s EXCEPT !.wbuf = <<>>, !.wcap = 0, !.filename = <<>>],
          es |-> zip_file_add(es, s.filename, s.wbuf), res |-> TRUE,
          rel |-> Released(0, 1)]

\* a close that adds without ZIP_FL_OVERWRITE semantics: an existing entry stays
closeKeepingOldEntry(s, es, ro, srcOK, addOK) ==
    IF s.rh THEN [s |-> [s EXCEPT !.rh = FALSE, !.filename = <<>>], es |-> es, res |-> TRUE,
                  rel |-> Released(0, 0)]
    ELSE IF Len(s.wbuf) > 0 /\ zip_name_locate(es, s.filename) < 0
         THEN [s |-> [s EXCEPT !.wbuf = <<>>, !.wcap = 0, !.filename = <<>>],
               es |-> zip_file_add(es, s.filename, s.wbuf), res |-> TRUE,
               rel |-> Released(0, 1)]
    ELSE [s |-> [s EXCEPT !.wbuf = <<>>, !.wcap = 0, !.filename = <<>>],
          es |-> es, res |-> TRUE, rel |-> Released(0, 0)]

\* a close that frees the buffer itself after a failed zip_file_add, although
\* the source it released owned the buffer
closeFreeingTwice(s, es, ro, srcOK, addOK) ==
    IF s.rh
    THEN [s |-> [s EXCEPT !.rh = FALSE, !.filename = <<>>], es |-> es, res |-> TRUE,
          rel |-> Released(0, 0)]
    ELSE IF Len(s.wbuf) > 0
    THEN IF ~srcOK
         THEN [s |-> [s EXCEPT !.wbuf = <<>>, !.wcap = 0, !.filename = <<>>],
               es |-> es, res |-> FALSE, rel |-> Released(1, 0)]
         ELSE IF s.filename = <<>>
         THEN [s |-> [s EXCEPT !.wbuf = <<>>, !.wcap = 0], es |-> es, res |-> FALSE,
               rel |-> Released(0, 1)]
         ELSE IF ro \/ ~addOK
         THEN [s |-> [s EXCEPT !.wbuf = <<>>, !.wcap = 0, !.filename = <<>>],
               es |-> es, res |-> FALSE, rel |-> Released(1, 1)]
         ELSE [s |-> [s EXCEPT !.wbuf = <<>>, !.wcap = 0, !.filename = <<>>],
               es |-> zip_file_add(es, s.filename, s.wbuf), res |-> TRUE,
               rel |-> Released(0, 1)]
    ELSE [s |-> s, es |-> es, res |-> TRUE, rel |-> Released(0, 0)]

\* close(): srcOK, addOK are whether zip_source_buffer and zip_file_add succeed
\* (zip_file_add never does on a read-only archive)
close(s, es, ro, srcOK, addOK) ==
    IF s.rh
    THEN [s |-> [s EXCEPT !.rh = FALSE, !.filename = <<>>], es |-> es, res |-> TRUE,
          rel |-> Released(0, 0)]
    ELSE IF Len(s.wbuf) > 0
    THEN IF ~srcOK
         THEN [s |-> [s EXCEPT !.wbuf = <<>>, !.wcap = 0, !.filename = <<>>],
               es |-> es, res |-> FALSE, rel |-> Released(1, 0)]
         ELSE IF s.filename = <<>>
         THEN [s |-> [s EXCEPT !.wbuf = <<>>, !.wcap = 0], es |-> es, res |-> FALSE,
               rel |-> Released(0, 1)]
         ELSE IF ro \/ ~addOK
         THEN [s |-> [s EXCEPT !.wbuf = <<>>, !.wcap = 0, !.filename = <<>>],
               es |-> es, res |-> FALSE, rel |-> Released(0, 1)]
         ELSE [s |-> [s EXCEPT !.wbuf = <<>>, !.wcap = 0, !.filename = <<>>],
               es |-> zip_file_add(es, s.filename, s.wbuf), res |-> TRUE,
               rel |-> Released(0, 1)]
    ELSE [s |-> s, es |-> es, res |-> TRUE, rel |-> Released(0, 0)]

(***************************************************************************)
(* WrappedZipArchive::close and the post-close closure of                  *)
(* createZipArchiveMemory.                                                 *)
(***************************************************************************)
NoData == [has |-> FALSE, bytes |-> <<>>]

\* the closure's argument to onCloseFunc. image: what the memory source holds;
\* empty: zip_close removed the source; fault: the backend call of the closure
\* that fails, if any
\* a closure that does not ask whether the source was removed
memoryOnCloseIgnoringEmpty(image, empty, fault) ==
    IF fault \in {"stat", "open", "read"} THEN NoData
    ELSE [has |-> TRUE, bytes |-> image]

\* a closure that hands on a short read-back
memoryOnCloseShortData(image, empty, fault) ==
    IF empty THEN NoData
    ELSE IF fault = "stat" \/ fault = "open" THEN NoData
    ELSE IF fault = "read" THEN [has |-> TRUE, bytes |-> Take(image, Len(image) - 1)]
    ELSE [has |-> TRUE, bytes |-> image]

memoryOnClose(image, empty, fault) ==
    IF empty THEN NoData                      \* zip_source_is_deleted
    ELSE IF fault = "stat" THEN NoData        \* zip_source_stat < 0
    ELSE IF fault = "open" THEN NoData        \* zip_source_open < 0
    ELSE IF fault = "read" THEN NoData        \* readResult < 0 or short
    ELSE [has |-> TRUE, bytes |-> image]

Event(ev, arg) == [ev |-> ev, arg |-> arg]

\* a wrapper that commits whatever the read-only flag says
wrappedCloseCommitting(pz, ro, knd, es, fault) ==
    IF pz # "open" THEN <<>>
    ELSE <<Event("zip_close", NoData)>>
         \o (IF knd = "createMemory"
             THEN <<Event("onCloseFunc",
                          memoryOnClose(ArchiveImage(es), Len(es) = 0, fault))>>
             ELSE <<>>)

\* WrappedZipArchive::close: the backend close, then postCloseFunc
wrappedClose(pz, ro, knd, es, fault) ==
    IF pz # "open" THEN <<>>
    ELSE <<Event(IF ro THEN "zip_discard" ELSE "zip_close", NoData)>>
         \o (IF knd = "createMemory"
             THEN <<Event("onCloseFunc",
                          memoryOnClose(ArchiveImage(es), Len(es) = 0, fault))>>
             ELSE <<>>)

(***************************************************************************)
(* WzZipIOSourceReadProvider and the zip_source_t created on it. refs is   *)
(* the backend's reference count of the source (0: no source); the backend *)
(* sends the FREE command when the count falls to 0, frees times. held:    *)
(* the post-close closure holds the shared_ptr to the provider; atReset:   *)
(* the retain count when the closure let go of it (-1 before).             *)
(***************************************************************************)
NoProvider == [retainCount |-> 0, refs |-> 0, held |-> FALSE, atReset |-> -1]

inform_source_keep(p) == [p EXCEPT !.retainCount = @ + 1]

\* an inform_source_free that counts down whatever the count is
informSourceFreeUnguarded(p) == [p EXCEPT !.retainCount = @ - 1]

inform_source_free(p) ==
    IF p.retainCount > 0 THEN [p EXCEPT !.retainCount = @ - 1] ELSE p

\* wzZipIOSourceProviderCallback receiving ZIP_SOURCE_FREE frees times
RECURSIVE SourceFreeCommands(_, _)
SourceFreeCommands(p, frees) ==
    IF frees = 0 THEN p ELSE SourceFreeCommands(inform_source_free(p), frees - 1)

zip_source_keep(p) == [p EXCEPT !.refs = @ + 1]

zip_source_free(p, frees) ==
    IF p.refs = 1 THEN SourceFreeCommands([p EXCEPT !.refs = 0], frees)
    ELSE [p EXCEPT !.refs = @ - 1]

\* openZipArchiveReadIOProvider from zip_source_function_create on: the
\* provider and whether an archive came back
openProvider(p, openOK, frees) ==
    LET created == [p EXCEPT !.refs = 1]
    IN  IF ~openOK THEN [p |-> zip_source_free(created, frees), ok |-> FALSE]
        ELSE [p |-> [inform_source_keep(zip_source_keep(created)) EXCEPT !.held = TRUE],
              ok |-> TRUE]

\* the backend close of the archive, which drops the archive's reference,
\* then the closure: zip_source_free(pProviderSource); zipSourceProvider.reset()
providerOnClose(p, frees) ==
    LET q == zip_source_free(zip_source_free(p, frees), frees)
    IN  [q EXCEPT !.held = FALSE, !.atReset = q.retainCount]

(***************************************************************************)
(* WzMapZipIO.                                                             *)
(***************************************************************************)
\* a check of the size alone
sanityCheckSizeOnly(st, fileSizeLimit) ==
    IF st.sizeValid /\ fileSizeLimit < st.size THEN "FAILURE_EXCEEDS_MAXFILESIZE"
    ELSE "PASSED"

\* a size check that also refuses a size equal to the limit
sanityCheckInclusive(st, fileSizeLimit) ==
    IF st.sizeValid /\ fileSizeLimit <= st.size THEN "FAILURE_EXCEEDS_MAXFILESIZE"
    ELSE IF st.comp \notin {"UNKNOWN", "STORE", "DEFLATE"}
    THEN "FAILURE_UNSUPPORTED_COMP_METHOD"
    ELSE "PASSED"

\* comp "UNKNOWN": the stat does not report a compression method
wzMapZipIOSanityCheckStat(st, fileSizeLimit) ==
    IF st.sizeValid /\ fileSizeLimit < st.size THEN "FAILURE_EXCEEDS_MAXFILESIZE"
    ELSE IF st.comp # "UNKNOWN" /\ st.comp # "STORE" /\ st.comp # "DEFLATE"
    THEN "FAILURE_UNSUPPORTED_COMP_METHOD"
    ELSE "PASSED"

Stat(e, fault) == [sizeValid |-> fault # "nosize", size |-> e.size, comp |-> e.comp]

Outcome(res, buf, opened) == [res |-> res, buf |-> buf, opened |-> opened]

\* loadFullFile: its result, the caller's vector afterwards, and whether
\* openForReading was reached. fault: the backend call that fails, if any
loadFullFile(es, wa, fd, filename, maxFileSize, appendNullCharacter, fault) ==
    LET idx == wz_zip_name_locate_impl(es, filename, wa)
        e == es[idx]
        limit == IF maxFileSize # 0 THEN maxFileSize
                 ELSE WzMapZipDefaultEmbeddedFileMaxFileSize
        check == wzMapZipIOSanityCheckStat(Stat(e, fault), limit)
        want == e.size + (IF appendNullCharacter THEN 1 ELSE 0)
        r == readBytes(openForReading(e, fault # "fopen"), want, fault = "fread", TRUE)
    IN  IF idx < 0 THEN Outcome("FAILURE_OPEN", fd, FALSE)
        ELSE IF fault = "stat" THEN Outcome("FAILURE_OPEN", fd, FALSE)
        ELSE IF fault = "nosize" THEN Outcome("FAILURE_OPEN", fd, FALSE)
        ELSE IF check = "FAILURE_EXCEEDS_MAXFILESIZE"
        THEN Outcome("FAILURE_EXCEEDS_MAXFILESIZE", fd, FALSE)
        ELSE IF check # "PASSED" THEN Outcome("FAILURE_OPEN", fd, FALSE)
        ELSE IF r.cnt < 0 THEN Outcome("FAILURE_READ", VecZeros(want), TRUE)
        ELSE IF r.cnt # e.size THEN Outcome("FAILURE_READ", Vec(<<>>), TRUE)
        ELSE Outcome("SUCCESS", VecStore(VecZeros(want), r.chunk), TRUE)

\* writeFullFile: its result and the entry table afterwards; the stream's
\* close() result is not looked at
writeFullFile(es, ro, filename, data, fault) ==
    LET w == writeBytes(openForWriting(filename), data, fault # "alloc")
        c == close(w.s, es, ro, fault # "source", fault # "add")
    IN  IF filename = <<>> THEN [res |-> FALSE, es |-> es, wrote |-> FALSE]
        ELSE IF w.cnt < 0 THEN [res |-> FALSE, es |-> es, wrote |-> FALSE]
        ELSE [res |-> TRUE, es |-> c.es, wrote |-> TRUE]

(***************************************************************************)
(* The calls a caller makes, as actions. lastOp records the call and what  *)
(* it returned; for a close(), again: the stream had been closed before    *)
(* with nothing written since, same: the call left the entries and the     *)
(* stream's own fields as they were.                                       *)
(***************************************************************************)
NoOp == [op |-> "none", sid |-> 0, name |-> <<>>, flag |-> FALSE, num |-> 0,
         fault |-> "none", res |-> "", cnt |-> 0, out |-> <<>>, data |-> <<>>,
         before |-> Vec(<<>>), opened |-> FALSE, had |-> <<>>,
         again |-> FALSE, same |-> FALSE, cap |-> 0, rel |-> Released(0, 0)]

Bool(b) == IF b THEN "true" ELSE "false"

Usable == facade /\ pZip = "open"

AnyNamed(es) == \E i \in 1..Len(es) : es[i].name # <<>>

\* an archive that only the facade keeps alive
FacadeGone(f, ss) == ~f

\* the shared_ptr<WrappedZipArchive> has lost its last owner
LastOwnerGone(f, ss) == ~f /\ \A i \in 1..Len(ss) : ~ss[i].alive

\* the part of every release: the wrapper's destructor when the last owner goes
\* (for an archive on a source-read provider, followed by the closure of
\* openZipArchiveReadIOProvider; frees: the FREE commands the backend sends)
ReleaseShare(f, ss, es, fault) ==
    IF LastOwnerGone(f, ss)
    THEN /\ events' = events \o wrappedClose(pZip, readOnly, kind, es, fault)
         /\ pZip' = IF pZip = "open" THEN "null" ELSE pZip
         /\ IF pZip = "open" /\ kind = "readProvider"
            THEN \E frees \in 1..MaxFrees : provider' = providerOnClose(provider, frees)
            ELSE provider' = provider
    ELSE UNCHANGED <<events, pZip, provider>>

\* close() result c of stream s registered the stream's buffer as an entry
Registered(s, c) == ~s.rh /\ Len(s.wbuf) > 0 /\ c.res

FileExists(filename) ==
    /\ Usable
    /\ quirk' = Memoized(quirk, entries)
    /\ lastOp' = [NoOp EXCEPT !.op = "fileExists", !.name = filename,
                     !.res = Bool(wz_zip_name_locate_impl(entries, filename,
                                      Workaround(quirk, entries)) >= 0)]
    /\ UNCHANGED <<entries, pZip, readOnly, kind, facade, cache, streams, fileData, events, provider>>

\* enumerateFiles / enumerateFilesRecursive; enumFunc returns false at its
\* limit-th call (never when limit = 0)
EnumerateFiles(basePath, recurse, limit) ==
    /\ Usable
    /\ LET all == enumerateFilesInternal(entries, Workaround(quirk, entries), basePath, recurse)
       IN  lastOp' = [NoOp EXCEPT !.op = "enumerateFiles", !.name = basePath,
                         !.flag = recurse, !.num = limit, !.res = "true",
                         !.out = IF limit = 0 THEN all ELSE Take(all, limit)]
    /\ quirk' = IF AnyNamed(entries) THEN Memoized(quirk, entries) ELSE quirk
    /\ UNCHANGED <<entries, pZip, readOnly, kind, facade, cache, streams, fileData, events, provider>>

\* enumerateFolders / enumerateFoldersRecursive
EnumerateFolders(basePath, recurse, limit) ==
    /\ Usable
    /\ LET rebuild == cache = <<>>
           list == IF rebuild THEN BuildCache(entries, Workaround(quirk, entries)) ELSE cache
           all == listFolders(list, basePath, recurse)
       IN  /\ cache' = list
           /\ quirk' = IF rebuild /\ AnyNamed(entries) THEN Memoized(quirk, entries) ELSE quirk
           /\ lastOp' = [NoOp EXCEPT !.op = "enumerateFolders", !.name = basePath,
                            !.flag = recurse, !.num = limit, !.res = "true",
                            !.out = IF limit = 0 THEN all ELSE Take(all, limit)]
    /\ UNCHANGED <<entries, pZip, readOnly, kind, facade, streams, fileData, events, provider>>

LoadFullFile(filename, maxFileSize, appendNullCharacter, fault) ==
    /\ Usable
    /\ LET o == loadFullFile(entries, Workaround(quirk, entries), fileData, filename,
                             maxFileSize, appendNullCharacter, fault)
       IN  /\ fileData' = o.buf
           /\ lastOp' = [NoOp EXCEPT !.op = "loadFullFile", !.name = filename,
                            !.flag = appendNullCharacter, !.num = maxFileSize,
                            !.fault = fault, !.res = o.res, !.before = fileData,
                            !.opened = o.opened]
    /\ quirk' = Memoized(quirk, entries)
    /\ UNCHANGED <<entries, pZip, readOnly, kind, facade, cache, streams, events, provider>>

WriteFullFile(filename, data, fault) ==
    /\ Usable
    /\ LET o == writeFullFile(entries, readOnly, filename, data, fault)
       IN  /\ entries' = o.es
           /\ cache' = IF o.res THEN <<>> ELSE cache
           /\ lastOp' = [NoOp EXCEPT !.op = "writeFullFile", !.name = filename,
                            !.data = data, !.fault = fault, !.res = Bool(o.res)]
    /\ UNCHANGED <<pZip, readOnly, kind, facade, quirk, streams, fileData, events, provider>>

\* openBinaryStream(filename, READ)
OpenForRead(filename, fault) ==
    /\ Usable
    /\ LET idx == wz_zip_name_locate_impl(entries, filename, Workaround(quirk, entries))
           ok == /\ idx >= 0
                 /\ fault # "stat"
                 /\ wzMapZipIOSanityCheckStat(Stat(entries[idx], fault),
                        WzMapZipDefaultEmbeddedFileMaxFileSize) = "PASSED"
       IN  /\ streams' = IF ok THEN Append(streams, openForReading(entries[idx], fault # "fopen"))
                         ELSE streams
           /\ lastOp' = [NoOp EXCEPT !.op = "openRead", !.name = filename, !.fault = fault,
                            !.res = IF ok THEN "stream" ELSE "null",
                            !.sid = IF ok THEN Len(streams) + 1 ELSE 0]
    /\ quirk' = Memoized(quirk, entries)
    /\ UNCHANGED <<entries, pZip, readOnly, kind, facade, cache, fileData, events, provider>>

\* an openBinaryStream(filename, WRITE) that refuses a name already in use
OpenForWriteOnlyNew(filename) ==
    /\ Usable
    /\ streams' = IF filename = <<>> \/ zip_name_locate(entries, filename) >= 0 THEN streams
                  ELSE Append(streams, openForWriting(filename))
    /\ lastOp' = [NoOp EXCEPT !.op = "openWrite", !.name = filename,
                     !.res = IF filename = <<>> \/ zip_name_locate(entries, filename) >= 0
                             THEN "null" ELSE "stream",
                     !.sid = IF filename = <<>> \/ zip_name_locate(entries, filename) >= 0
                             THEN 0 ELSE Len(streams) + 1]
    /\ UNCHANGED <<entries, pZip, readOnly, kind, facade, quirk, cache, fileData, events, provider>>

\* openBinaryStream(filename, WRITE)
OpenForWrite(filename) ==
    /\ Usable
    /\ streams' = IF filename = <<>> THEN streams
                  ELSE Append(streams, openForWriting(filename))
    /\ lastOp' = [NoOp EXCEPT !.op = "openWrite", !.name = filename,
                     !.res = IF filename = <<>> THEN "null" ELSE "stream",
                     !.sid = IF filename = <<>> THEN 0 ELSE Len(streams) + 1]
    /\ UNCHANGED <<entries, pZip, readOnly, kind, facade, quirk, cache, fileData, events, provider>>

ReadBytes(i, len, ioErr, wide) ==
    /\ i \in 1..Len(streams) /\ streams[i].alive
    /\ LET r == readBytes(streams[i], len, ioErr, wide)
       IN  /\ streams' = [streams EXCEPT ![i] = [r.s EXCEPT !.delivered = @ \o r.chunk]]
           /\ lastOp' = [NoOp EXCEPT !.op = "readBytes", !.sid = i, !.num = len,
                            !.fault = IF ioErr THEN "fread" ELSE "none",
                            !.cnt = r.cnt, !.out = r.chunk, !.had = streams[i].extra]
    /\ UNCHANGED <<entries, pZip, readOnly, kind, facade, quirk, cache, fileData, events, provider>>

EndOfStream(i, ioErr) ==
    /\ i \in 1..Len(streams) /\ streams[i].alive
    /\ LET r == endOfStream(streams[i], ioErr)
       IN  /\ streams' = [streams EXCEPT ![i] = r.s]
           /\ lastOp' = [NoOp EXCEPT !.op = "endOfStream", !.sid = i,
                            !.fault = IF ioErr THEN "fread" ELSE "none",
                            !.res = Bool(r.res), !.had = streams[i].extra]
    /\ UNCHANGED <<entries, pZip, readOnly, kind, facade, quirk, cache, fileData, events, provider>>

\* writeBytes(buffer, len) on a stream whose buffer stays within limit bytes;
\* lastOp keeps the buffer (had) and the capacity (cap) from before the call
WriteBytesUpTo(i, chunk, allocOK, limit) ==
    /\ i \in 1..Len(streams) /\ streams[i].alive
    /\ Len(streams[i].wbuf) + Len(chunk) <= limit
    /\ LET r == writeBytes(streams[i], chunk, allocOK)
       IN  /\ streams' = [streams EXCEPT ![i] =
                             [r.s EXCEPT !.closed = @ /\ r.s.wbuf = streams[i].wbuf]]
           /\ lastOp' = [NoOp EXCEPT !.op = "writeBytes", !.sid = i, !.data = chunk,
                            !.cnt = r.cnt, !.had = streams[i].wbuf,
                            !.cap = streams[i].wcap]
    /\ UNCHANGED <<entries, pZip, readOnly, kind, facade, quirk, cache, fileData, events, provider>>

WriteBytes(i, chunk, allocOK) == WriteBytesUpTo(i, chunk, allocOK, MaxBuf)

\* the caller's close() on a stream it keeps
CloseStream(i, fault) ==
    /\ i \in 1..Len(streams) /\ streams[i].alive
    /\ LET c == close(streams[i], entries, readOnly, fault # "source", fault # "add")
       IN  /\ streams' = [streams EXCEPT ![i] =
                             [c.s EXCEPT !.closedWith =
                                 IF Registered(streams[i], c) THEN streams[i].wbuf ELSE @,
                                         !.closed = TRUE]]
           /\ entries' = c.es
           /\ lastOp' = [NoOp EXCEPT !.op = "close", !.sid = i, !.data = streams[i].wbuf,
                            !.name = streams[i].filename,
                            !.res = Bool(c.res), !.again = streams[i].closed,
                            !.same = (c.es = entries /\ c.s = streams[i]),
                            !.cap = streams[i].wcap, !.rel = c.rel]
    /\ UNCHANGED <<pZip, readOnly, kind, facade, quirk, cache, fileData>>
    /\ UNCHANGED <<events, provider>>

\* the caller drops a stream: ~WzMapBinaryZipIOStream runs close(), then the
\* stream's share of the archive is released
DestroyStream(i, fault, closeFault) ==
    /\ i \in 1..Len(streams) /\ streams[i].alive
    /\ LET c == close(streams[i], entries, readOnly, fault # "source", fault # "add")
           ss == [streams EXCEPT ![i] =
                     [c.s EXCEPT !.alive = FALSE,
                                 !.closedWith =
                                     IF Registered(streams[i], c) THEN streams[i].wbuf ELSE @]]
       IN  /\ streams' = ss
           /\ entries' = c.es
           /\ ReleaseShare(facade, ss, c.es, closeFault)
           /\ lastOp' = [NoOp EXCEPT !.op = "destroy", !.sid = i,
                            !.data = streams[i].wbuf,
                            !.name = streams[i].filename,
                            !.again = streams[i].closed,
                            !.same = (c.es = entries /\ c.s = streams[i]),
                            !.cap = streams[i].wcap, !.rel = c.rel]
    /\ UNCHANGED <<readOnly, kind, facade, quirk, cache, fileData>>

\* openZipArchiveReadIOProvider(zipSourceProvider): srcOK, openOK are whether
\* zip_source_function_create and zip_open_from_source succeed
OpenZipArchiveReadIOProvider(srcOK, openOK, frees) ==
    /\ kind = "readProvider" /\ pZip = "none" /\ ~facade
    /\ LET o == IF srcOK THEN openProvider(provider, openOK, frees)
                ELSE [p |-> provider, ok |-> FALSE]
       IN  /\ provider' = o.p
           /\ pZip' = IF o.ok THEN "open" ELSE pZip
           /\ facade' = o.ok
           /\ lastOp' = [NoOp EXCEPT !.op = "openProvider",
                            !.fault = IF ~srcOK THEN "source"
                                      ELSE IF ~openOK THEN "open" ELSE "none",
                            !.res = IF o.ok THEN "archive" ELSE "null"]
    /\ UNCHANGED <<entries, readOnly, kind, quirk, cache, streams, fileData, events>>

\* the caller drops the shared_ptr<WzMapZipIO>
ReleaseFacade(closeFault) ==
    /\ facade
    /\ facade' = FALSE
    /\ ReleaseShare(FALSE, streams, entries, closeFault)
    /\ lastOp' = [NoOp EXCEPT !.op = "release"]
    /\ UNCHANGED <<entries, readOnly, kind, quirk, cache, streams, fileData>>

(***************************************************************************)
(* Archives, inputs and the specifications. Each specification is the      *)
(* provider under one kind of caller.                                      *)
(***************************************************************************)
Entry(name, data, size, opsys, comp) ==
    [name |-> name, data |-> data, size |-> size, opsys |-> opsys, comp |-> comp]

\* sequences of at most n entries of pool, no name twice
ArchivesOf(pool, n) ==
    {a \in UNION {[1..k -> pool] : k \in 0..n} :
        \A i, j \in 1..Len(a) : i # j => a[i].name # a[j].name}

NameA == <<"a">>
NameB == <<"b">>

\* entries of an opened archive: an empty one, a deflated one, and ones whose
\* stated size is at or above the default cap (their data cut short)
IOPool ==
    { Entry(NameA, <<>>, 0, "UNIX", "STORE"),
      Entry(NameA, <<7, 0>>, 2, "UNIX", "DEFLATE"),
      Entry(NameB, <<7>>, WzMapZipDefaultEmbeddedFileMaxFileSize, "UNIX", "STORE"),
      Entry(NameB, <<7>>, WzMapZipDefaultEmbeddedFileMaxFileSize + 1, "UNIX", "STORE") }

CloseFaults == {"none", "stat", "open", "read"}

Fresh ==
    /\ facade = TRUE
    /\ quirk = "unknown"
    /\ cache = <<>>
    /\ streams = <<>>
    /\ events = <<>>
    /\ provider = NoProvider
    /\ lastOp = NoOp

(* A caller that writes through streams and releases its objects in any    *)
(* order, on an archive made by createZipArchiveMemory or opened from a    *)
(* file.                                                                   *)
Init ==
    /\ kind \in {"createMemory", "openFS"}
    /\ IF kind = "createMemory"
       THEN entries = <<>> /\ readOnly = FALSE
       ELSE entries = <<Entry(NameA, <<7, 0>>, 2, "UNIX", "DEFLATE")>>
            /\ readOnly \in BOOLEAN
    /\ fileData = Vec(<<>>)
    /\ pZip = "open"
    /\ Fresh

Next ==
    \/ \E n \in {NameA, <<>>} : Len(streams) < MaxStreams /\ OpenForWrite(n)
    \/ \E i \in 1..MaxStreams, ok \in BOOLEAN : WriteBytes(i, <<i>>, ok)
    \/ \E i \in 1..MaxStreams, f \in {"none", "source", "add"} : CloseStream(i, f)
    \/ \E i \in 1..MaxStreams, cf \in CloseFaults : DestroyStream(i, "none", cf)
    \/ \E cf \in CloseFaults : ReleaseFacade(cf)

Spec == Init /\ [][Next]_vars

(* A caller that reads one entry through a stream.                         *)
InitRead ==
    /\ kind = "openFS"
    /\ entries \in ArchivesOf({Entry(NameA, <<>>, 0, "UNIX", "STORE"),
                               Entry(NameA, <<7, 0>>, 2, "UNIX", "DEFLATE"),
                               Entry(NameA, <<7, 0, 5>>, 3, "UNIX", "STORE")}, 1)
    /\ readOnly = TRUE
    /\ fileData = Vec(<<>>)
    /\ pZip = "open"
    /\ Fresh

NextRead ==
    \/ \E f \in {"none", "stat", "fopen"} : streams = <<>> /\ OpenForRead(NameA, f)
    \/ \E len \in 0..MaxReadLen, e \in BOOLEAN, w \in BOOLEAN : ReadBytes(1, len, e, w)
    \/ \E e \in BOOLEAN : EndOfStream(1, e)
    \/ CloseStream(1, "none")

SpecRead == InitRead /\ [][NextRead]_vars

(* A caller that opens streams of either mode on one entry, uses them and  *)
(* closes them any number of times. writeBytes does not look at the mode.  *)
InitClose ==
    /\ kind = "openFS"
    /\ entries = <<Entry(NameA, <<7, 0>>, 2, "UNIX", "DEFLATE")>>
    /\ readOnly \in BOOLEAN
    /\ fileData = Vec(<<>>)
    /\ pZip = "open"
    /\ Fresh

NextClose ==
    \/ \E f \in {"none", "fopen"} : Len(streams) < MaxStreams /\ OpenForRead(NameA, f)
    \/ Len(streams) < MaxStreams /\ OpenForWrite(NameA)
    \/ \E i \in 1..MaxStreams : ReadBytes(i, 1, FALSE, TRUE)
    \/ \E i \in 1..MaxStreams : WriteBytes(i, <<i>>, TRUE)
    \/ \E i \in 1..MaxStreams, f \in {"none", "add"} : CloseStream(i, f)
    \/ \E i \in 1..MaxStreams : DestroyStream(i, "none", "none")

SpecClose == InitClose /\ [][NextClose]_vars

(* The same caller as in Spec, on a wrapper that may have been built       *)
(* without a handle (the constructor then leaves readOnly false).          *)
InitWrapper ==
    /\ kind \in {"createMemory", "openFS"}
    /\ pZip \in {"open", "none"}
    /\ IF kind = "createMemory" \/ pZip = "none"
       THEN entries = <<>> /\ readOnly = FALSE
       ELSE entries = <<Entry(NameA, <<7, 0>>, 2, "UNIX", "DEFLATE")>>
            /\ readOnly \in BOOLEAN
    /\ fileData = Vec(<<>>)
    /\ Fresh

SpecWrapper == InitWrapper /\ [][Next]_vars

(* A caller that loads and writes whole files.                             *)
InitLoad ==
    /\ kind = "openFS"
    /\ entries \in ArchivesOf(IOPool, MaxEntries)
    /\ readOnly \in BOOLEAN
    /\ fileData \in {Vec(<<>>), Vec(<<9>>)}
    /\ pZip = "open"
    /\ Fresh

NextLoad ==
    \/ \E n \in {NameA, NameB}, m \in 0..1, z \in BOOLEAN,
          f \in {"none", "stat", "nosize", "fopen", "fread"} : LoadFullFile(n, m, z, f)
    \/ \E n \in {NameA, <<>>}, d \in {<<>>, <<1>>, <<2, 0>>},
          f \in {"none", "alloc", "source", "add"} : WriteFullFile(n, d, f)

SpecLoad == InitLoad /\ [][NextLoad]_vars

(* A caller that reads entries of several compression methods; "UNKNOWN"   *)
(* is an entry whose stat reports no method.                               *)
CompPool ==
    { Entry(NameA, <<7, 0>>, 2, "UNIX", "STORE"),
      Entry(NameA, <<7, 0>>, 2, "UNIX", "DEFLATE"),
      Entry(NameA, <<7, 0>>, 2, "UNIX", "BZIP2"),
      Entry(NameA, <<7, 0>>, 2, "UNIX", "UNKNOWN"),
      Entry(NameB, <<7>>, 1, "UNIX", "LZMA"),
      Entry(NameB, <<7>>, WzMapZipDefaultEmbeddedFileMaxFileSize + 1, "UNIX", "BZIP2") }

InitComp ==
    /\ kind = "openFS"
    /\ entries \in ArchivesOf(CompPool, MaxEntries)
    /\ readOnly = TRUE
    /\ fileData \in {Vec(<<>>), Vec(<<9>>)}
    /\ pZip = "open"
    /\ Fresh

NextComp ==
    \/ \E n \in {NameA, NameB}, m \in 0..1, f \in {"none", "fopen"} :
          LoadFullFile(n, m, FALSE, f)
    \/ \E n \in {NameA, NameB}, f \in {"none", "fopen"} :
          Len(streams) < MaxStreams /\ OpenForRead(n, f)
    \/ \E i \in 1..MaxStreams : ReadBytes(i, 1, FALSE, TRUE)

SpecComp == InitComp /\ [][NextComp]_vars

(* A caller that enumerates and looks up names in an opened archive.       *)
EnumPool ==
    { Entry(<<"a", "/", "b", "/", "c">>, <<1>>, 1, "UNIX", "STORE"),
      Entry(<<"a", "/", "b", "/">>, <<>>, 0, "UNIX", "STORE"),
      Entry(<<"d", "\\", "f">>, <<1>>, 1, "DOS", "STORE"),
      Entry(<<"x">>, <<1>>, 1, "DOS", "STORE"),
      Entry(<<"a", "/", "c">>, <<1>>, 1, "DOS", "STORE"),
      Entry(<<".", ".", "/", "x">>, <<1>>, 1, "UNIX", "STORE"),
      Entry(<<"/", "a", "/", "x">>, <<1>>, 1, "UNIX", "STORE"),
      Entry(<<"C", ":", "/", "x">>, <<1>>, 1, "UNIX", "STORE"),
      Entry(<<"\\", "a", "\\", "x">>, <<1>>, 1, "DOS", "STORE"),
      Entry(<<"a", "/", "/", "b">>, <<1>>, 1, "UNIX", "STORE"),
      Entry(<<>>, <<1>>, 1, "UNIX", "STORE") }

BasePaths == {<<>>, <<"/">>, <<"a">>, <<"a", "/">>, <<"d">>}
NameDF == <<"d", "/", "f">>

InitEnum ==
    /\ kind = "openFS"
    /\ entries \in ArchivesOf(EnumPool, MaxEntries)
    /\ readOnly = FALSE
    /\ fileData = Vec(<<>>)
    /\ pZip = "open"
    /\ Fresh

NextEnum ==
    \/ \E p \in BasePaths, r \in BOOLEAN : EnumerateFiles(p, r, 0)
    \/ \E p \in BasePaths, r \in BOOLEAN : EnumerateFolders(p, r, 0)
    \/ FileExists(NameDF)
    \/ WriteFullFile(NameDF, <<1>>, "none")

SpecEnum == InitEnum /\ [][NextEnum]_vars

(* A caller that looks names up in archives with and without entries of    *)
(* backslash names; entries of one archive differ in their content.        *)
LookupPool ==
    { Entry(<<"d", "/", "f">>, <<1>>, 1, "UNIX", "STORE"),
      Entry(<<"d", "\\", "f">>, <<2>>, 1, "DOS", "STORE"),
      Entry(<<"d", "\\", "f">>, <<3>>, 1, "UNIX", "STORE"),
      Entry(<<"x">>, <<4>>, 1, "DOS", "STORE"),
      Entry(<<"a", "/", "c">>, <<5>>, 1, "DOS", "STORE") }

LookupNames == {<<"d", "/", "f">>, <<"d", "\\", "f">>, <<"a", "/", "c">>}

InitLookup ==
    /\ kind = "openFS"
    /\ entries \in ArchivesOf(LookupPool, MaxEntries)
    /\ readOnly = FALSE
    /\ fileData = Vec(<<>>)
    /\ pZip = "open"
    /\ Fresh

NextLookup ==
    \/ \E n \in LookupNames : FileExists(n)
    \/ \E n \in LookupNames : Len(streams) < MaxStreams /\ OpenForRead(n, "none")
    \/ \E n \in LookupNames : LoadFullFile(n, 0, FALSE, "none")
    \/ WriteFullFile(<<"d", "/", "f">>, <<6>>, "none")

SpecLookup == InitLookup /\ [][NextLookup]_vars

(* A caller that writes entry a through streams, into an archive that      *)
(* holds it already or does not.                                           *)
InitWrite ==
    /\ kind = "openFS"
    /\ entries \in {<<>>, <<Entry(NameA, <<7, 0>>, 2, "UNIX", "DEFLATE")>>}
    /\ readOnly = FALSE
    /\ fileData = Vec(<<>>)
    /\ pZip = "open"
    /\ Fresh

NextWrite ==
    \/ Len(streams) < MaxStreams /\ OpenForWrite(NameA)
    \/ \E i \in 1..MaxStreams, ok \in BOOLEAN : WriteBytes(i, <<i>>, ok)
    \/ \E i \in 1..MaxStreams, f \in {"none", "source", "add"} : CloseStream(i, f)
    \/ \E i \in 1..MaxStreams, f \in {"none", "source"} : DestroyStream(i, f, "none")

SpecWrite == InitWrite /\ [][NextWrite]_vars

(* A caller that fills one write stream with chunks of several sizes, so   *)
(* that the buffer is reallocated with room left and without.              *)
GrowLimit == 2400
ChunkLens == {0, 100, 1024, 1500}
Chunk(n) == [i \in 1..n |-> n % 256]

InitGrow ==
    /\ kind = "createMemory"
    /\ entries = <<>>
    /\ readOnly = FALSE
    /\ fileData = Vec(<<>>)
    /\ pZip = "open"
    /\ Fresh

NextGrow ==
    \/ streams = <<>> /\ OpenForWrite(NameA)
    \/ \E n \in ChunkLens, ok \in BOOLEAN : WriteBytesUpTo(1, Chunk(n), ok, GrowLimit)

SpecGrow == InitGrow /\ [][NextGrow]_vars

(* A caller that opens an archive on its own source-read provider (any     *)
(* number of failed attempts first), reads from it and lets go of it.      *)
InitProvider ==
    /\ kind = "readProvider"
    /\ entries \in {<<>>, <<Entry(NameA, <<7, 0>>, 2, "UNIX", "DEFLATE")>>}
    /\ readOnly = TRUE
    /\ fileData = Vec(<<>>)
    /\ pZip = "none"
    /\ facade = FALSE
    /\ quirk = "unknown"
    /\ cache = <<>>
    /\ streams = <<>>
    /\ events = <<>>
    /\ provider = NoProvider
    /\ lastOp = NoOp

NextProvider ==
    \/ \E srcOK \in BOOLEAN, openOK \in BOOLEAN, frees \in 1..MaxFrees :
          OpenZipArchiveReadIOProvider(srcOK, openOK, frees)
    \/ FileExists(NameA)
    \/ Len(streams) < MaxStreams /\ OpenForRead(NameA, "none")
    \/ \E i \in 1..MaxStreams : ReadBytes(i, 1, FALSE, TRUE)
    \/ \E i \in 1..MaxStreams : DestroyStream(i, "none", "none")
    \/ ReleaseFacade("none")

SpecProvider == InitProvider /\ [][NextProvider]_vars

(* A caller that lists folders and adds entries, through writeFullFile and *)
(* through write streams.                                                  *)
NameABC == <<"a", "/", "b", "/", "c">>
NameAC == <<"a", "/", "c">>

InitCache ==
    /\ kind = "openFS"
    /\ entries \in {<<>>, <<Entry(NameABC, <<1>>, 1, "UNIX", "STORE")>>}
    /\ readOnly = FALSE
    /\ fileData = Vec(<<>>)
    /\ pZip = "open"
    /\ Fresh

NextCache ==
    \/ \E p \in {<<>>, <<"a">>}, r \in BOOLEAN : EnumerateFolders(p, r, 0)
    \/ \E n \in {NameDF, NameAC} : WriteFullFile(n, <<1>>, "none")
    \/ \E n \in {NameDF, NameAC} : Len(streams) < MaxStreams /\ OpenForWrite(n)
    \/ \E i \in 1..MaxStreams : WriteBytes(i, <<i>>, TRUE)
    \/ \E i \in 1..MaxStreams : CloseStream(i, "none")

SpecCache == InitCache /\ [][NextCache]_vars

TypeOK ==
    /\ pZip \in {"open", "null", "none"}
    /\ quirk \in {"unknown", "true", "false"}
    /\ Len(streams) <= MaxStreams

(***************************************************************************)
(* What the claims speak of, stated without the provider's routines.       *)
(***************************************************************************)
IsPrefixOf(p, s) == Len(p) <= Len(s) /\ \A i \in 1..Len(p) : p[i] = s[i]

\* the entry called n
EntryNamed(n) == entries[SetMin({i \in 1..Len(entries) : entries[i].name = n})]
HasEntry(n) == \E i \in 1..Len(entries) : entries[i].name = n

\* the workaround flag the last call worked with
FlagOn == quirk = "true"

(***************************************************************************)
(* C1  writeFullFile(name, data, len) followed by loadFullFile(name)       *)
(* returns SUCCESS and yields exactly the len bytes of data, for every     *)
(* len including 0, on a writable archive (no backend call failing).       *)
(***************************************************************************)
LoadNow(n) ==
    loadFullFile(entries, Workaround(quirk, entries), fileData, n, 0, FALSE, "none")

AfterWrite ==
    /\ lastOp.op = "writeFullFile"
    /\ lastOp.fault = "none"
    /\ lastOp.name # <<>>
    /\ ~readOnly

C1_RoundTrip ==
    AfterWrite => LoadNow(lastOp.name).res = "SUCCESS"
                  /\ LoadNow(lastOp.name).buf = Vec(lastOp.data)

\* the same for len >= 1, which the provider does satisfy
C1_RoundTripNonEmpty ==
    AfterWrite /\ lastOp.data # <<>>
        => LoadNow(lastOp.name).res = "SUCCESS"
           /\ LoadNow(lastOp.name).buf = Vec(lastOp.data)

(***************************************************************************)
(* C7  loadFullFile refuses an entry whose stated uncompressed size is     *)
(* above the cap in force (maxFileSize, or 104857600 when maxFileSize is   *)
(* 0) with FAILURE_EXCEEDS_MAXFILESIZE, before any read stream is opened   *)
(* and with the caller's buffer as it was; an entry whose size equals the  *)
(* cap is not refused for its size.                                        *)
(***************************************************************************)
CapInForce == IF lastOp.num # 0 THEN lastOp.num ELSE 104857600

\* the last call was a loadFullFile of an entry whose stat gave a size
LoadedStated ==
    /\ lastOp.op = "loadFullFile"
    /\ HasEntry(lastOp.name)
    /\ lastOp.fault \notin {"stat", "nosize"}

C7_SizeCap ==
    LoadedStated =>
        /\ EntryNamed(lastOp.name).size > CapInForce
              => /\ lastOp.res = "FAILURE_EXCEEDS_MAXFILESIZE"
                 /\ ~lastOp.opened
                 /\ fileData = lastOp.before
        /\ EntryNamed(lastOp.name).size = CapInForce
              => lastOp.res # "FAILURE_EXCEEDS_MAXFILESIZE"

\* an entry one byte above the default cap was refused, the caller's buffer
\* holding a byte from before
C7_Refused ==
    /\ LoadedStated
    /\ lastOp.num = 0
    /\ EntryNamed(lastOp.name).size = 104857601
    /\ lastOp.res = "FAILURE_EXCEEDS_MAXFILESIZE"
    /\ fileData = Vec(<<9>>)

(***************************************************************************)
(* Read streams: B is the content of the entry the stream was opened on,   *)
(* delivered the bytes readBytes has handed to the caller so far.          *)
(***************************************************************************)
ContentOf(i) == EntryNamed(streams[i].name0).data

OpenReadStream(i) ==
    /\ i \in 1..Len(streams)
    /\ streams[i].mode = "READ"
    /\ streams[i].rh

(***************************************************************************)
(* C2  On an open read stream endOfStream() is false while a byte of the    *)
(* entry is undelivered (one held as lookahead included) and true only     *)
(* when a read attempt at the true end of the entry fails; on a zero-byte  *)
(* entry the first call is true.  As stated: true exactly when every byte  *)
(* has been delivered.                                                     *)
(***************************************************************************)
C2_TrueOnlyAtEnd ==
    lastOp.op = "endOfStream" /\ OpenReadStream(lastOp.sid)
        => (lastOp.res = "true"
               <=> Len(streams[lastOp.sid].delivered) = Len(ContentOf(lastOp.sid)))

(* C2 as amended: endOfStream() is true exactly when every byte has been   *)
(* delivered or the backend has reported a read error on the stream (a     *)
(* failed read-ahead is taken for the end); it is false while a lookahead  *)
(* byte is pending.                                                        *)
C2_TrueAtEndOrError ==
    lastOp.op = "endOfStream" /\ OpenReadStream(lastOp.sid)
        => /\ lastOp.res = "true"
                <=> \/ Len(streams[lastOp.sid].delivered) = Len(ContentOf(lastOp.sid))
                    \/ streams[lastOp.sid].rerr
           /\ streams[lastOp.sid].extra # <<>> => lastOp.res = "false"

\* endOfStream turned true at the end of a non-empty entry, all of it read
\* without error
C2_EndReached ==
    /\ lastOp.op = "endOfStream" /\ OpenReadStream(lastOp.sid)
    /\ lastOp.res = "true"
    /\ ~streams[lastOp.sid].rerr
    /\ streams[lastOp.sid].delivered = ContentOf(lastOp.sid)
    /\ Len(ContentOf(lastOp.sid)) >= 2

(***************************************************************************)
(* C3  Whatever the interleaving of readBytes(len >= 1) and endOfStream()  *)
(* calls on one open read stream, the bytes delivered, concatenated, are a      *)
(* prefix of B with none lost, duplicated or reordered; the value of a     *)
(* successful readBytes is the number of bytes it delivered; a pending     *)
(* lookahead byte is the first byte of the next readBytes.  The bytes the  *)
(* backend has handed out are the delivered ones followed by the           *)
(* lookahead.                                                              *)
(***************************************************************************)
C3_NoByteLost ==
    /\ \A i \in 1..Len(streams) :
          streams[i].mode = "READ" =>
             /\ IsPrefixOf(streams[i].delivered, ContentOf(i))
             /\ streams[i].delivered \o streams[i].extra
                    = SubSeq(ContentOf(i), 1, streams[i].rpos)
    /\ lastOp.op = "readBytes" /\ lastOp.num >= 1 /\ OpenReadStream(lastOp.sid) =>
          /\ lastOp.cnt >= 0 => lastOp.cnt = Len(lastOp.out)
          /\ lastOp.had # <<>> => lastOp.cnt >= 1 /\ lastOp.out[1] = lastOp.had[1]

\* a readBytes delivered the lookahead byte and the byte after it
C3_LookaheadFirst ==
    /\ lastOp.op = "readBytes" /\ OpenReadStream(lastOp.sid)
    /\ lastOp.num >= 2
    /\ lastOp.had # <<>>
    /\ lastOp.cnt = 2
    /\ lastOp.out = SubSeq(ContentOf(lastOp.sid), 1, 2)

(***************************************************************************)
(* Enumeration: the names an archive implies, stated from the entry names. *)
(***************************************************************************)
\* empty, holding "..", led by a separator, or led by a drive letter
NameIsUnsafe(n) ==
    \/ n = <<>>
    \/ \E k \in 1..(Len(n) - 1) : n[k] = "." /\ n[k + 1] = "."
    \/ n # <<>> /\ n[1] \in {"/", "\\"}
    \/ Len(n) >= 2 /\ n[1] \in Letters /\ n[2] = ":"

\* the name of an entry after separator normalization
NameOf(e) == NormalizedName(e, FlagOn)

SafeEntries == SelectSeq(entries, LAMBDA e : ~NameIsUnsafe(NameOf(e)))
AllSafe == SafeEntries = entries

\* the directory a base path denotes: "" and "/" are the root
DirOf(P) ==
    IF P = <<>> \/ P = <<"/">> THEN <<>>
    ELSE IF P[Len(P)] = "/" THEN P ELSE P \o <<"/">>

Enumerated == lastOp.op \in {"enumerateFiles", "enumerateFolders"}

(***************************************************************************)
(* C4  No entry whose normalized name is empty, holds "..", begins with    *)
(* '/' or '\', or begins with a drive letter and ':' contributes a name to *)
(* the output of enumerateFiles, enumerateFilesRecursive, enumerateFolders *)
(* or enumerateFoldersRecursive: nothing listed is, under the base path,   *)
(* such a name, and the output is what the archive without those entries   *)
(* gives.                                                                  *)
(***************************************************************************)
C4_UnsafeNeverListed ==
    Enumerated =>
        /\ \A k \in 1..Len(lastOp.out) :
              ~NameIsUnsafe(DirOf(lastOp.name) \o lastOp.out[k])
        /\ lastOp.out =
              IF lastOp.op = "enumerateFiles"
              THEN enumerateFilesInternal(SafeEntries, FlagOn, lastOp.name, lastOp.flag)
              ELSE listFolders(BuildCache(SafeEntries, FlagOn), lastOp.name, lastOp.flag)

\* a recursive listing of the root gave names although the archive holds an
\* unsafe entry
C4_ListedBesideUnsafe ==
    /\ Enumerated
    /\ lastOp.name = <<>> /\ lastOp.flag
    /\ lastOp.out # <<>>
    /\ ~AllSafe

(***************************************************************************)
(* C5  For safe entry names and every base path P, enumerateFolders(P)     *)
(* reports exactly the immediate child directories of P the entries imply, *)
(* each once, relative to P, ending in '/', and                            *)
(* enumerateFoldersRecursive(P) exactly all descendant directories of P.   *)
(***************************************************************************)
\* every directory on the path of an entry: each prefix of a name that ends
\* in '/'
ImpliedDirs ==
    UNION { {SubSeq(NameOf(SafeEntries[i]), 1, k) :
                k \in {j \in 1..Len(NameOf(SafeEntries[i])) :
                          NameOf(SafeEntries[i])[j] = "/"}} :
            i \in 1..Len(SafeEntries) }

Descendants(P) ==
    {Substr(d, Len(DirOf(P))) :
        d \in {x \in ImpliedDirs : IsPrefixOf(DirOf(P), x) /\ x # DirOf(P)}}

Children(P) ==
    {r \in Descendants(P) : Cardinality({k \in 1..Len(r) : r[k] = "/"}) = 1}

FoldersAsImplied ==
    /\ SeqToSet(lastOp.out) =
          IF lastOp.flag THEN Descendants(lastOp.name) ELSE Children(lastOp.name)
    /\ Cardinality(SeqToSet(lastOp.out)) = Len(lastOp.out)

C5_FoldersExact ==
    lastOp.op = "enumerateFolders" /\ AllSafe => FoldersAsImplied

\* the same for archives none of whose names has an empty path component,
\* which the provider does satisfy
NoEmptyComponent ==
    \A i \in 1..Len(entries) : ~HasSubstr(NameOf(entries[i]), <<"/", "/">>)

C5_FoldersExactNoEmptyComponent ==
    lastOp.op = "enumerateFolders" /\ NoEmptyComponent => FoldersAsImplied

(***************************************************************************)
(* C6  For every base path P, enumerateFilesRecursive(P) reports exactly   *)
(* the safe entries not ending in '/' that lie under P, each relative to   *)
(* P, and enumerateFiles(P) exactly those of them whose relative name has  *)
(* no further '/'.                                                         *)
(***************************************************************************)
FilesUnder(P) ==
    LET under == SelectSeq(SafeEntries,
                     LAMBDA e : /\ NameOf(e)[Len(NameOf(e))] # "/"
                                /\ IsPrefixOf(DirOf(P), NameOf(e)))
    IN  [k \in 1..Len(under) |-> Substr(NameOf(under[k]), Len(DirOf(P)))]

FilesDirectlyUnder(P) == SelectSeq(FilesUnder(P), LAMBDA r : ~HasChar(r, "/"))

C6_FilesExact ==
    lastOp.op = "enumerateFiles" =>
        lastOp.out = IF lastOp.flag THEN FilesUnder(lastOp.name)
                     ELSE FilesDirectlyUnder(lastOp.name)

\* enumerateFiles("a/") listed a file and left out one that lies deeper
C6_DeeperLeftOut ==
    /\ lastOp.op = "enumerateFiles"
    /\ ~lastOp.flag
    /\ lastOp.name = <<"a", "/">>
    /\ lastOp.out = <<<<"c">>>>
    /\ Len(FilesUnder(lastOp.name)) = 2

(***************************************************************************)
(* C9  For every archive holding a DOS-origin entry stored as dir\file.txt *)
(* (here d\f), whatever other entries it holds and in whatever order,      *)
(* fileExists("dir/file.txt") is true.                                     *)
(***************************************************************************)
NameDBackslashF == <<"d", "\\", "f">>

HoldsDosBackslashEntry ==
    \E i \in 1..Len(entries) :
        entries[i].name = NameDBackslashF /\ entries[i].opsys = "DOS"

AskedForDF ==
    /\ lastOp.op = "fileExists"
    /\ lastOp.name = NameDF
    /\ HoldsDosBackslashEntry

C9_FoundWhateverElse == AskedForDF => lastOp.res = "true"

(* C9 as amended: fileExists("dir/file.txt") is true exactly when an entry *)
(* of that very name exists or the first entry, in index order, that is    *)
(* not a DOS-origin entry without any separator is a DOS-origin entry with *)
(* a backslash in its name; an earlier entry that is not DOS-origin, or    *)
(* DOS-origin with '/' and no '\', leaves the workaround off.              *)
HasSeparator(n) == \E k \in 1..Len(n) : n[k] \in {"/", "\\"}

BackslashEntryDecides ==
    \E i \in 1..Len(entries) :
        /\ entries[i].opsys = "DOS"
        /\ \E k \in 1..Len(entries[i].name) : entries[i].name[k] = "\\"
        /\ \A j \in 1..(i - 1) :
              entries[j].opsys = "DOS" /\ ~HasSeparator(entries[j].name)

C9_FoundWhenBackslashDecides ==
    AskedForDF =>
        (lastOp.res = "true" <=> (BackslashEntryDecides \/ HasEntry(NameDF)))

\* found through the workaround, the entry not being the archive's first
C9_FoundBehindPlainName ==
    /\ AskedForDF
    /\ lastOp.res = "true"
    /\ ~HasEntry(NameDF)
    /\ Len(entries) >= 2
    /\ entries[2].name = NameDBackslashF

(***************************************************************************)
(* C8  Two write streams opened for one name on a writable archive, each   *)
(* given non-empty data and both closed, in either order: the archive      *)
(* holds exactly one entry of that name, and a read of the name returns    *)
(* the content of the stream closed last.                                  *)
(***************************************************************************)
\* the last call closed write stream lastOp.sid, registering its data, and
\* another write stream of the same name had registered its data before
SecondCloseOfTwo ==
    /\ lastOp.op = "close"
    /\ lastOp.res = "true"
    /\ lastOp.data # <<>>
    /\ streams[lastOp.sid].mode = "WRITE"
    /\ streams[lastOp.sid].closedWith = lastOp.data
    /\ \E i \in 1..Len(streams) :
          /\ i # lastOp.sid
          /\ streams[i].mode = "WRITE"
          /\ streams[i].name0 = streams[lastOp.sid].name0
          /\ streams[i].closedWith # <<>>

C8_LastCloseWins ==
    SecondCloseOfTwo =>
        /\ Cardinality({k \in 1..Len(entries) :
                           entries[k].name = streams[lastOp.sid].name0}) = 1
        /\ LoadNow(streams[lastOp.sid].name0).res = "SUCCESS"
        /\ LoadNow(streams[lastOp.sid].name0).buf = Vec(lastOp.data)

\* the stream opened first was closed last, over an entry the opened archive
\* already had
C8_FirstOpenedClosedLast ==
    /\ SecondCloseOfTwo
    /\ lastOp.sid = 1
    /\ kind = "openFS"
    /\ EntryNamed(streams[1].name0).data = <<1>>

(***************************************************************************)
(* C10  For an archive made by createZipArchiveMemory the completion       *)
(* callback is invoked exactly once over the archive's life, never before  *)
(* the backend archive has been closed, and on every path of the           *)
(* post-close routine it receives the full committed bytes or no data.     *)
(***************************************************************************)
CallbackAt == {k \in 1..Len(events) : events[k].ev = "onCloseFunc"}
BackendCloseAt == {k \in 1..Len(events) : events[k].ev \in {"zip_close", "zip_discard"}}

C10_CallbackOnceAfterClose ==
    kind = "createMemory" =>
        /\ Cardinality(CallbackAt) = (IF pZip = "null" THEN 1 ELSE 0)
        /\ \A k \in CallbackAt :
              /\ \E c \in BackendCloseAt : c < k
              /\ \/ events[k].arg = NoData
                 \/ events[k].arg = [has |-> TRUE, bytes |-> ArchiveImage(entries)]

\* the callback received the bytes of an archive that two streams wrote to
C10_ReceivedArchive ==
    /\ kind = "createMemory"
    /\ \E k \in CallbackAt : events[k].arg.has
    /\ Len(entries) = 1
    /\ \E i \in 1..Len(streams) : i = 2 /\ streams[i].closedWith # <<>>

(***************************************************************************)
(* C11  An archive made by createZipArchiveMemory in which no entry was    *)
(* registered (no write, or only writes that add nothing) hands the        *)
(* completion callback no data when it is released, not an empty or        *)
(* header-only byte sequence.                                              *)
(***************************************************************************)
C11_EmptyArchiveNoData ==
    kind = "createMemory" /\ pZip = "null" /\ entries = <<>>
        => /\ CallbackAt # {}
           /\ \A k \in CallbackAt : events[k].arg = NoData

\* released with nothing registered, after a write stream was opened and
\* dropped with nothing to add
C11_ReleasedEmpty ==
    /\ kind = "createMemory" /\ pZip = "null" /\ entries = <<>>
    /\ \E k \in CallbackAt : events[k].arg = NoData
    /\ \E i \in 1..Len(streams) : streams[i].mode = "WRITE" /\ ~streams[i].alive

(***************************************************************************)
(* C12  close() is idempotent: after a first close() of a read stream or   *)
(* of a write stream, whether it succeeded or failed, a later close() with *)
(* nothing written in between returns true, registers no entry, releases   *)
(* no handle or buffer again and leaves the archive as it was; the         *)
(* destructor's close after an explicit close is such a no-op.             *)
(***************************************************************************)
ClosedAgain == lastOp.op \in {"close", "destroy"} /\ lastOp.again

IdleClose == lastOp.same /\ (lastOp.op = "close" => lastOp.res = "true")

C12_CloseIdempotent == ClosedAgain => IdleClose

\* the same for write streams and for read streams that writeBytes was never
\* called on, which the provider does satisfy
C12_CloseIdempotentInOwnMode ==
    ClosedAgain /\ (streams[lastOp.sid].mode = "WRITE" \/ lastOp.data = <<>>)
        => IdleClose

(***************************************************************************)
(* C13  The backend archive is closed exactly once, and only when the last *)
(* holder of the shared handle (the facade or a stream opened from it) is  *)
(* released, in any release order: releasing the facade while a stream is  *)
(* open does not close the archive, and a write stream closed or destroyed *)
(* after the facade was released still registers its entry before the      *)
(* archive is committed.                                                   *)
(***************************************************************************)
NoHolderLeft == ~facade /\ \A i \in 1..Len(streams) : ~streams[i].alive

\* the last call closed or destroyed a write stream that had a name and data,
\* on a writable archive, the facade being gone already
WroteAfterFacade ==
    /\ lastOp.op \in {"close", "destroy"}
    /\ ~facade /\ ~readOnly
    /\ streams[lastOp.sid].mode = "WRITE"
    /\ lastOp.data # <<>> /\ lastOp.name # <<>>
    /\ lastOp.op = "close" => lastOp.res = "true"

C13_ClosedOnceByLastHolder ==
    /\ Cardinality(BackendCloseAt) = (IF pZip = "null" THEN 1 ELSE 0)
    /\ pZip = "null" <=> NoHolderLeft
    /\ WroteAfterFacade =>
          /\ HasEntry(lastOp.name)
          /\ EntryNamed(lastOp.name).data = lastOp.data
          /\ kind = "createMemory" =>
                \A k \in CallbackAt :
                    events[k].arg.has => events[k].arg.bytes = ArchiveImage(entries)

\* the facade went first; the stream destroyed last registered its entry and
\* the archive was committed with it
C13_StreamOutlivesFacade ==
    /\ WroteAfterFacade
    /\ lastOp.op = "destroy"
    /\ pZip = "null"
    /\ kind = "createMemory"
    /\ \E k \in CallbackAt : events[k].arg = [has |-> TRUE, bytes |-> ArchiveImage(entries)]
    /\ Len(entries) = 1

(***************************************************************************)
(* C14  When the archive handle wrapper closes: an archive whose read-only *)
(* flag was set at open time is discarded with no write-back, any other    *)
(* archive is committed; the post-close callback, if any, runs exactly     *)
(* once and strictly after the backend close; a wrapper built on a null    *)
(* handle performs neither a backend close nor the post-close callback.    *)
(***************************************************************************)
EventNames == [k \in 1..Len(events) |-> events[k].ev]

C14_WrapperClose ==
    /\ pZip \in {"open", "none"} => events = <<>>
    /\ pZip = "null" =>
          EventNames = <<IF readOnly THEN "zip_discard" ELSE "zip_close">>
                       \o (IF kind = "createMemory" THEN <<"onCloseFunc">> ELSE <<>>)

\* a read-only archive was discarded after a write stream tried to add to it
C14_Discarded ==
    /\ pZip = "null" /\ readOnly
    /\ EventNames = <<"zip_discard">>
    /\ \E i \in 1..Len(streams) : streams[i].mode = "WRITE" /\ streams[i].closed

\* a wrapper without a handle, and with a callback, was released
C14_NoHandleReleased ==
    /\ pZip = "none" /\ ~facade
    /\ kind = "createMemory"
    /\ events = <<>>

(***************************************************************************)
(* C15  The directory cache is invalidated whenever a write changes the    *)
(* entry set: once a folder enumeration has built the cache, a write that  *)
(* adds an entry under a new directory, through writeFullFile or through a *)
(* write stream that is then closed, shows in the next enumerateFolders /  *)
(* enumerateFoldersRecursive: the listing is the one the entries imply.    *)
(***************************************************************************)
C15_CacheFollowsWrites ==
    lastOp.op = "enumerateFolders" => FoldersAsImplied

\* the same while every entry was added by writeFullFile, which the provider
\* does satisfy
C15_CacheFollowsWriteFullFile ==
    lastOp.op = "enumerateFolders"
    /\ (\A i \in 1..Len(streams) : streams[i].closedWith = <<>>)
        => FoldersAsImplied

(***************************************************************************)
(* C16  An entry whose compression method is reported and is neither       *)
(* storage nor deflate is never read: openBinaryStream(name, READ) returns *)
(* null, and loadFullFile returns a failure (FAILURE_OPEN when the size    *)
(* cap is not exceeded) without opening a read stream or changing the      *)
(* output buffer; entries stored or deflated within the cap pass the       *)
(* check.                                                                  *)
(***************************************************************************)
Unsupported(e) == e.comp \notin {"UNKNOWN", "STORE", "DEFLATE"}
Supported(e) == e.comp \in {"STORE", "DEFLATE"}

C16_UnsupportedNeverRead ==
    /\ \A i \in 1..Len(streams) : ~Unsupported(EntryNamed(streams[i].name0))
    /\ lastOp.op = "openRead" /\ HasEntry(lastOp.name) =>
          /\ Unsupported(EntryNamed(lastOp.name)) => lastOp.res = "null"
          /\ Supported(EntryNamed(lastOp.name))
             /\ EntryNamed(lastOp.name).size <= WzMapZipDefaultEmbeddedFileMaxFileSize
                => lastOp.res = "stream"
    /\ LoadedStated =>
          /\ Unsupported(EntryNamed(lastOp.name)) =>
                /\ lastOp.res \in {"FAILURE_OPEN", "FAILURE_EXCEEDS_MAXFILESIZE"}
                /\ EntryNamed(lastOp.name).size <= CapInForce
                      => lastOp.res = "FAILURE_OPEN"
                /\ ~lastOp.opened
                /\ fileData = lastOp.before
          /\ Supported(EntryNamed(lastOp.name))
             /\ EntryNamed(lastOp.name).size <= CapInForce => lastOp.opened

\* loadFullFile refused a small bzip2 entry, the caller's buffer holding a
\* byte from before
C16_RefusedMethod ==
    /\ LoadedStated
    /\ EntryNamed(lastOp.name).comp = "BZIP2"
    /\ EntryNamed(lastOp.name).size = 2
    /\ lastOp.res = "FAILURE_OPEN"
    /\ fileData = Vec(<<9>>)

(***************************************************************************)
(* C17  openBinaryStream(name, WRITE) returns a non-null write stream for  *)
(* every name, whether or not an entry of that name already exists.        *)
(***************************************************************************)
C17_WriteStreamForEveryName ==
    lastOp.op = "openWrite" => lastOp.res = "stream"

\* As the code has it: a write stream for every name but the empty one, an
\* empty stream of mode WRITE carrying the name and leaving the archive alone.
C17_WriteStreamForNonEmptyName ==
    lastOp.op = "openWrite" =>
        /\ lastOp.res = "stream" <=> lastOp.name # <<>>
        /\ lastOp.res = "stream" =>
              /\ lastOp.sid = Len(streams)
              /\ streams[lastOp.sid].mode = "WRITE"
              /\ streams[lastOp.sid].filename = lastOp.name
              /\ streams[lastOp.sid].wbuf = <<>>
        /\ lastOp.res = "null" => lastOp.sid = 0

\* a write stream opened on the name of an entry the archive holds
C17_OpenedOverEntry ==
    /\ lastOp.op = "openWrite"
    /\ HasEntry(lastOp.name)
    /\ lastOp.res = "stream"

(***************************************************************************)
(* C18  Every lookup by name (fileExists, openBinaryStream READ,           *)
(* loadFullFile) first tries the literal name; the retry with every '/'    *)
(* replaced by '\' happens only if the literal lookup failed and the       *)
(* archive is classified as having the malformed-separator quirk, so on an *)
(* archive not so classified a name is found if and only if an entry of    *)
(* exactly that name exists.                                               *)
(***************************************************************************)
LookedUp == lastOp.op \in {"fileExists", "openRead", "loadFullFile"}

Found ==
    \/ lastOp.op = "fileExists" /\ lastOp.res = "true"
    \/ lastOp.op = "openRead" /\ lastOp.res = "stream"
    \/ lastOp.op = "loadFullFile" /\ lastOp.res = "SUCCESS"

\* the entry the last lookup came back with is the one called n
FoundAs(n) ==
    /\ Found
    /\ lastOp.op = "openRead" =>
          /\ streams[lastOp.sid].name0 = n
          /\ streams[lastOp.sid].rdata = EntryNamed(n).data
    /\ lastOp.op = "loadFullFile" => fileData = Vec(EntryNamed(n).data)

Backslashed(n) == Replace(n, "/", "\\")

C18_LiteralThenRetry ==
    LookedUp =>
        /\ HasEntry(lastOp.name) => FoundAs(lastOp.name)
        /\ ~HasEntry(lastOp.name) /\ FlagOn /\ HasEntry(Backslashed(lastOp.name))
              => FoundAs(Backslashed(lastOp.name))
        /\ ~HasEntry(lastOp.name) /\ ~(FlagOn /\ HasEntry(Backslashed(lastOp.name)))
              => ~Found
        /\ ~FlagOn => (Found <=> HasEntry(lastOp.name))

\* d/f loaded from an archive classified as quirky that holds both d/f and
\* d\f: the literal entry's bytes came back
C18_LiteralBeforeRetry ==
    /\ lastOp.op = "loadFullFile"
    /\ FlagOn
    /\ HasEntry(lastOp.name)
    /\ HasEntry(Backslashed(lastOp.name))
    /\ Backslashed(lastOp.name) # lastOp.name
    /\ fileData = Vec(EntryNamed(lastOp.name).data)

\* d/f asked for in an archive holding d\f but not classified as quirky
C18_NoRetryWithoutQuirk ==
    /\ LookedUp
    /\ ~FlagOn
    /\ ~HasEntry(lastOp.name)
    /\ HasEntry(Backslashed(lastOp.name))
    /\ ~Found

(***************************************************************************)
(* C19  Whenever writeFullFile(name, data, size) returns true, the archive *)
(* contains an entry called name afterwards, with content data; for every  *)
(* size including 0, and also when the write stream's close fails to       *)
(* register the entry (as on a read-only archive).                         *)
(***************************************************************************)
WroteTrue == lastOp.op = "writeFullFile" /\ lastOp.res = "true"

Holds(n, d) == HasEntry(n) /\ EntryNamed(n).data = d /\ EntryNamed(n).size = Len(d)

C19_TrueMeansWritten ==
    WroteTrue => Holds(lastOp.name, lastOp.data)

\* what the provider does satisfy: true after at least one byte was handed
\* over and the stream's close() registered it
C19_TrueMeansWrittenIfRegistered ==
    WroteTrue /\ lastOp.data # <<>> /\ ~readOnly /\ lastOp.fault = "none"
        => Holds(lastOp.name, lastOp.data)

\* true returned on a read-only archive that holds no entry of the name
C19_TrueWithoutEntry ==
    WroteTrue /\ readOnly /\ lastOp.data # <<>> /\ ~HasEntry(lastOp.name)

(***************************************************************************)
(* C20  For every len including 0, and whether or not a lookahead byte is  *)
(* pending from an earlier endOfStream(), readBytes(buffer, len) on an     *)
(* open read stream returns a count of at most len and stores at most len  *)
(* bytes into the buffer (and never asks the backend for more than len).   *)
(***************************************************************************)
C20_AtMostLen ==
    lastOp.op = "readBytes" =>
        /\ lastOp.cnt <= lastOp.num
        /\ Len(lastOp.out) <= lastOp.num

\* what the provider does satisfy: the same for len >= 1, or with no
\* lookahead byte pending
C20_AtMostLenUnlessZeroWithLookahead ==
    lastOp.op = "readBytes" /\ (lastOp.num >= 1 \/ lastOp.had = <<>>) =>
        /\ lastOp.cnt <= lastOp.num
        /\ Len(lastOp.out) <= lastOp.num

\* readBytes(buffer, 0) with a lookahead byte pending stored a byte
C20_ZeroLenStoredByte ==
    /\ lastOp.op = "readBytes"
    /\ lastOp.num = 0
    /\ lastOp.had # <<>>
    /\ lastOp.cnt >= 1
    /\ Len(lastOp.out) >= 1

(***************************************************************************)
(* C21  Whenever loadFullFile returns a failure result (FAILURE_OPEN,      *)
(* FAILURE_READ or FAILURE_EXCEEDS_MAXFILESIZE), the caller's output       *)
(* buffer is either unchanged from before the call or empty; after a short *)
(* read or a failed read it holds no partially read or zero-filled data.   *)
(***************************************************************************)
LoadFailed ==
    /\ lastOp.op = "loadFullFile"
    /\ lastOp.res \in {"FAILURE_OPEN", "FAILURE_READ", "FAILURE_EXCEEDS_MAXFILESIZE"}

C21_FailureLeavesNoData ==
    LoadFailed => fileData = lastOp.before \/ fileData = Vec(<<>>)

\* what the provider does satisfy: the same when the read did not fail
\* outright (it was refused before, or came back short)
C21_FailureLeavesNoDataUnlessReadFailed ==
    LoadFailed /\ lastOp.fault \notin {"fopen", "fread"}
        => fileData = lastOp.before \/ fileData = Vec(<<>>)

\* a failed read left the buffer resized to the entry's size, zero-filled
C21_ZeroFilledAfterFailedRead ==
    /\ LoadFailed
    /\ lastOp.res = "FAILURE_READ"
    /\ fileData.len > 0
    /\ fileData.bytes = <<>>
    /\ fileData # lastOp.before

\* a short read left the buffer empty
C21_ClearedAfterShortRead ==
    /\ LoadFailed
    /\ lastOp.res = "FAILURE_READ"
    /\ lastOp.fault = "none"
    /\ lastOp.before # Vec(<<>>)
    /\ fileData = Vec(<<>>)

(***************************************************************************)
(* C22  If the backend cannot open a located entry for reading (the open   *)
(* call yields no file handle), openBinaryStream(name, READ) returns null  *)
(* and loadFullFile returns FAILURE_OPEN; no stream object without a       *)
(* backend read handle is ever handed to the caller.                       *)
(***************************************************************************)
\* the last call reached zip_fopen_index, which gave no handle
OpenGaveNoHandle ==
    /\ lastOp.op \in {"openRead", "loadFullFile"}
    /\ lastOp.fault = "fopen"
    /\ HasEntry(lastOp.name)
    /\ wzMapZipIOSanityCheckStat(Stat(EntryNamed(lastOp.name), "fopen"),
           IF lastOp.op = "loadFullFile" THEN CapInForce
           ELSE WzMapZipDefaultEmbeddedFileMaxFileSize) = "PASSED"

C22_NoHandleNoStream ==
    /\ OpenGaveNoHandle /\ lastOp.op = "openRead" => lastOp.res = "null"
    /\ OpenGaveNoHandle /\ lastOp.op = "loadFullFile" => lastOp.res = "FAILURE_OPEN"
    /\ \A i \in 1..Len(streams) :
          streams[i].alive /\ streams[i].mode = "READ" /\ ~streams[i].closed
              => streams[i].rh

\* openBinaryStream READ handed out a stream that has no read handle
C22_StreamWithoutHandle ==
    /\ lastOp.op = "openRead"
    /\ lastOp.res = "stream"
    /\ ~streams[lastOp.sid].rh

\* loadFullFile answered FAILURE_READ to a failed open
C22_ReadFailureForFailedOpen ==
    /\ OpenGaveNoHandle
    /\ lastOp.op = "loadFullFile"
    /\ lastOp.res = "FAILURE_READ"

\* what the provider does satisfy: a stream without a handle delivers nothing
C22_NoHandleNoBytes ==
    \A i \in 1..Len(streams) :
        streams[i].mode = "READ" /\ streams[i].alive /\ ~streams[i].closed
        /\ ~streams[i].rh => streams[i].delivered = <<>>

(***************************************************************************)
(* C23  Data written to a write stream is held only in the stream's buffer *)
(* and is not visible in the archive until the stream is closed: opening   *)
(* the stream and any number of writeBytes calls leave the archive's       *)
(* entries (names and contents) as they were; an entry is registered only  *)
(* by close() (the caller's or the destructor's) and only if at least one  *)
(* byte was buffered, and then under the stream's name with the buffered   *)
(* bytes.                                                                  *)
(***************************************************************************)
C23_VisibleOnlyAtClose ==
    [][ /\ lastOp'.op \in {"openWrite", "writeBytes"} => entries' = entries
        /\ entries' # entries =>
              /\ lastOp'.op \in {"close", "destroy"}
              /\ lastOp'.data # <<>>
              /\ entries' = zip_file_add(entries, lastOp'.name, lastOp'.data) ]_vars

\* bytes sit in a write stream's buffer while the archive has no entry of
\* the stream's name
C23_BufferedNotVisible ==
    /\ lastOp.op = "writeBytes"
    /\ lastOp.cnt = 1
    /\ streams[lastOp.sid].mode = "WRITE"
    /\ streams[lastOp.sid].wbuf # <<>>
    /\ ~HasEntry(streams[lastOp.sid].filename)

\* close() made the buffered bytes an entry
C23_RegisteredAtClose ==
    /\ lastOp.op = "close"
    /\ lastOp.data # <<>>
    /\ Holds(lastOp.name, lastOp.data)

(***************************************************************************)
(* C24  On every path through a write stream's close() (source creation    *)
(* fails, filename empty, entry registration fails, success) and through   *)
(* its destructor, the accumulated memory buffer is released exactly once, *)
(* either freed locally or handed to (and freed by) the backend, never     *)
(* twice and never leaked; a buffer passes to the backend at most once,    *)
(* and a close() repeated with nothing written since passes none.          *)
(***************************************************************************)
WriteStream(i) == i \in 1..Len(streams) /\ streams[i].mode = "WRITE"

C24_HandedOverByDestructor ==
    /\ lastOp.op = "destroy"
    /\ WriteStream(lastOp.sid)
    /\ lastOp.cap > 0
    /\ lastOp.rel = Released(0, 1)

\* a close() whose zip_file_add failed left the buffer to the source it freed
C24_ReleasedOnFailedAdd ==
    /\ lastOp.op = "close"
    /\ WriteStream(lastOp.sid)
    /\ lastOp.cap > 0
    /\ lastOp.res = "false"
    /\ lastOp.rel = Released(0, 1)

(***************************************************************************)
(* C25  After any sequence of writeBytes calls on a write stream: buffered *)
(* length <= capacity; the buffered bytes are the concatenation of all     *)
(* successfully written chunks in call order; each successful              *)
(* writeBytes(buf, len) returns len; each reallocation sets capacity to    *)
(* max(old + max(old/2, len), 1024), at least old + floor(old/2) and at    *)
(* least 1024; a failed allocation returns no value and leaves buffer,     *)
(* length and capacity unchanged.                                          *)
(***************************************************************************)
\* the last writeBytes found less room than it was asked to fill
NeededRoom == lastOp.cap - Len(lastOp.had) < Len(lastOp.data)

C25_WriteBuffer ==
    /\ \A i \in 1..Len(streams) : WriteStream(i) => Len(streams[i].wbuf) <= streams[i].wcap
    /\ lastOp.op = "writeBytes" /\ WriteStream(lastOp.sid) =>
          LET s == streams[lastOp.sid]
              old == lastOp.cap
              len == Len(lastOp.data)
          IN  IF lastOp.cnt >= 0
              THEN /\ lastOp.cnt = len
                   /\ s.wbuf = lastOp.had \o lastOp.data
                   /\ NeededRoom =>
                         /\ s.wcap = Max2(old + Max2(old \div 2, len), 1024)
                         /\ s.wcap >= old + old \div 2
                         /\ s.wcap >= 1024
                   /\ ~NeededRoom => s.wcap = old
              ELSE /\ NeededRoom
                   /\ s.wbuf = lastOp.had
                   /\ s.wcap = old

\* a full buffer of 1024 bytes grew by half for a chunk smaller than that
C25_GrewByHalf ==
    /\ lastOp.op = "writeBytes"
    /\ lastOp.cnt = 100
    /\ lastOp.cap = 1024
    /\ Len(lastOp.had) = 1024
    /\ streams[lastOp.sid].wcap = 1536

\* a buffer grew by the chunk's length, larger than half its capacity
C25_GrewByLen ==
    /\ lastOp.op = "writeBytes"
    /\ NeededRoom
    /\ lastOp.cap = 1024
    /\ lastOp.cnt = 1500
    /\ streams[lastOp.sid].wcap = 2524

\* a failed reallocation left the bytes buffered so far
C25_AllocFailed ==
    /\ lastOp.op = "writeBytes"
    /\ lastOp.cnt < 0
    /\ lastOp.had # <<>>
    /\ streams[lastOp.sid].wbuf = lastOp.had

(***************************************************************************)
(* C26  The source-read provider's retain count never goes below zero and  *)
(* is zero once the provider is no longer used by any archive: a failed    *)
(* openZipArchiveReadIOProvider (whose cleanup makes the backend send FREE *)
(* before any keep) leaves it at 0, a successful open raises it to 1, and  *)
(* closing that archive brings it back to 0 before the provider is let go  *)
(* of, for any number of FREE commands the backend sends.                  *)
(***************************************************************************)
C26_RetainCount ==
    /\ provider.retainCount >= 0
    /\ provider.retainCount = (IF pZip = "open" THEN 1 ELSE 0)
    /\ provider.held <=> pZip = "open"
    /\ lastOp.op = "openProvider" =>
          provider.retainCount = (IF lastOp.res = "archive" THEN 1 ELSE 0)
    /\ pZip = "null" => provider.atReset = 0 /\ provider.refs = 0

\* the archive opened on the provider was closed after a stream outlived the
\* facade, and the provider let go of with a count of 0
C26_ClosedAfterUse ==
    /\ kind = "readProvider"
    /\ pZip = "null"
    /\ lastOp.op = "destroy"
    /\ provider.atReset = 0
    /\ ~provider.held

\* an open failed in zip_open_from_source and the source was freed
C26_FailedOpen ==
    /\ lastOp.op = "openProvider"
    /\ lastOp.fault = "open"
    /\ provider.retainCount = 0
    /\ provider.refs = 0

(***************************************************************************)
(* C27  Malformed-separator detection scans entries in index order and is  *)
(* decided by the first decisive entry: a DOS-origin entry whose name      *)
(* contains a backslash makes the archive quirky; a DOS-origin entry       *)
(* without backslash but with a forward slash makes it non-quirky; a       *)
(* DOS-origin entry with neither is skipped; the first non-DOS-origin      *)
(* entry makes it non-quirky; an archive with no decisive entry is         *)
(* non-quirky.                                                             *)
(***************************************************************************)
Decisive(e) == e.opsys # "DOS" \/ HasSeparator(e.name)

DecisiveIndices == {i \in 1..Len(entries) : Decisive(entries[i])}

FirstDecisive == entries[SetMin(DecisiveIndices)]

Detected == determineIfMalformedWindowsPathSeparatorWorkaround(entries)

C27_FirstDecisiveEntry ==
    /\ DecisiveIndices = {} => ~Detected
    /\ DecisiveIndices # {} =>
          /\ FirstDecisive.opsys # "DOS" => ~Detected
          /\ FirstDecisive.opsys = "DOS" /\ HasChar(FirstDecisive.name, "\\") => Detected
          /\ FirstDecisive.opsys = "DOS" /\ ~HasChar(FirstDecisive.name, "\\") => ~Detected
    /\ quirk # "unknown" => (FlagOn <=> Detected)

\* the flag was set from the second entry, the first being a DOS-origin
\* entry without separator
C27_SkippedToBackslash ==
    /\ FlagOn
    /\ Len(entries) >= 2
    /\ ~Decisive(entries[1])
    /\ entries[2].opsys = "DOS"
    /\ HasChar(entries[2].name, "\\")

\* a backslash entry behind a DOS-origin entry with a forward slash: the
\* flag was set to false
C27_SlashBeforeBackslash ==
    /\ quirk = "false"
    /\ Len(entries) >= 2
    /\ entries[1].opsys = "DOS" /\ HasChar(entries[1].name, "/")
    /\ entries[2].opsys = "DOS" /\ HasChar(entries[2].name, "\\")

Before(a, b) ==
    \/ Len(a) < Len(b) /\ IsPrefixOf(a, b)
    \/ \E k \in 1..Min2(Len(a), Len(b)) :
          /\ \A j \in 1..(k - 1) : a[j] = b[j]
          /\ CharCode(a[k]) < CharCode(b[k])

DirOfSomeEntry(d) ==
    \E i \in 1..Len(entries) : IsPrefixOf(d, NormalizedName(entries[i], FlagOn))

C29_CacheWellFormed ==
    /\ \A i \in 1..(Len(cache) - 1) : Before(cache[i], cache[i + 1])
    /\ \A i \in 1..Len(cache) :
          /\ cache[i] # <<>>
          /\ Last(cache[i]) = "/"
          /\ ~NameIsUnsafe(cache[i])
          /\ DirOfSomeEntry(cache[i])

\* a cache of two directories made from one entry, found deepest first
C29_CacheOfNested ==
    /\ Len(cache) >= 2
    /\ cache[1] = <<"a", "/">>
    /\ cache[2] = <<"a", "/", "b", "/">>

\* a cache built before a write that added a directory is still well formed
C29_CacheBehindWrite ==
    /\ cache # <<>>
    /\ lastOp.op = "close"
    /\ HasEntry(NameDF)
    /\ \A i \in 1..Len(cache) : cache[i] # <<"d", "/">>

====
